---- MODULE Spec2Model ----
(***************************************************************************)
(* fdtgrep: the region-selection walk of libfdt/fdt_region.c               *)
(* (fdt_first_region, fdt_next_region, fdt_add_region,                     *)
(* fdt_include_supernodes) driven by the predicate and the first/next loop *)
(* of fdtgrep.c (value_add, check_type_include, h_include,                 *)
(* fdt_find_regions, scan_args, main).                                     *)
(*                                                                         *)
(* Strings are sequences of one-character strings; the terminating NUL of  *)
(* C is the character NUL.  C array index k is sequence index k + 1.       *)
(***************************************************************************)
EXTENDS Integers, Sequences, FiniteSets, TLC

NUL == ""

(***************************************************************************)
(* Bounds of the model.                                                    *)
(***************************************************************************)
\* capacity of the caller's region array (and max_regions of the reference
\* walk, which gets an array that holds every region of a run)
ArrayLen == 10
\* path_len handed to the walk
PathLen == 14
\* largest comb blob: a root with that many one-property children
MaxComb == 5

(***************************************************************************)
(* Enumerations of libfdt.h and fdt_region.c.                              *)
(***************************************************************************)
WANT_NOTHING == 0
WANT_NODES_ONLY == 1
WANT_NODES_AND_PROPS == 2
WANT_ALL_NODES_AND_PROPS == 3

FDT_DONE_NOTHING == 0
FDT_DONE_MEM_RSVMAP == 1
FDT_DONE_STRUCT == 2
FDT_DONE_END == 3
FDT_DONE_STRINGS == 4

FDT_MAX_DEPTH == 32

\* FDT_IS_... type masks, as sets of kinds
FDT_IS_NODE == {"NODE"}
FDT_IS_PROP == {"PROP"}
FDT_IS_COMPAT == {"COMPAT"}
FDT_IS_ANY == {"NODE", "PROP", "VALUE", "COMPAT"}

\* sizes of the blob's fixed parts
FDT_TAGSIZE == 4
HeaderSize == 40
ReserveEntrySize == 16

(***************************************************************************)
(* The blob.  The structure block is a sequence of tags; a tag is a record *)
(* [tag, name, data]: name is the node or property name, data the property *)
(* value bytes.                                                            *)
(***************************************************************************)
BeginNode(name) == [tag |-> "BEGIN_NODE", name |-> name, data |-> <<>>]
EndNode == [tag |-> "END_NODE", name |-> <<>>, data |-> <<>>]
Prop(name, data) == [tag |-> "PROP", name |-> name, data |-> data]
Nop == [tag |-> "NOP", name |-> <<>>, data |-> <<>>]
End == [tag |-> "END", name |-> <<>>, data |-> <<>>]

Align4(n) == ((n + 3) \div 4) * 4

\* bytes a tag takes in the structure block (what fdt_next_tag skips)
TagSize(t) ==
    CASE t.tag = "BEGIN_NODE" -> FDT_TAGSIZE + Align4(Len(t.name) + 1)
      [] t.tag = "PROP" -> FDT_TAGSIZE + 8 + Align4(Len(t.data))
      [] OTHER -> FDT_TAGSIZE

RECURSIVE TagOffsets(_, _, _)
\* offsets (within the structure block) of tags i.. of the sequence, the
\* i-th being at offset off; one more entry than tags: the end offset
TagOffsets(tags, i, off) ==
    IF i > Len(tags) THEN <<off>>
    ELSE <<off>> \o TagOffsets(tags, i + 1, off + TagSize(tags[i]))

RECURSIVE SumLens(_)
SumLens(S) ==
    IF S = {} THEN 0
    ELSE LET x == CHOOSE y \in S : TRUE IN Len(x) + 1 + SumLens(S \ {x})

\* the string block holds each property name once, NUL-terminated
StringsSize(tags) ==
    SumLens({tags[i].name : i \in {j \in 1..Len(tags) : tags[j].tag = "PROP"}})

\* A blob in the order dtc writes it: header, mem-reserve map (nrsv entries
\* and the terminator), structure block, string block, with gap free bytes
\* after the mem-reserve map and after the structure block.
MkBlob(tags, nrsv, gap) ==
    LET offs == TagOffsets(tags, 1, 0)
        rsv == HeaderSize
        struct == rsv + ReserveEntrySize * (nrsv + 1) + gap
        ssize == offs[Len(offs)]
    IN [tags |-> tags, offs |-> offs,
        off_mem_rsvmap |-> rsv, off_dt_struct |-> struct,
        size_dt_struct |-> ssize, off_dt_strings |-> struct + ssize + gap,
        size_dt_strings |-> StringsSize(tags)]

fdt_off_dt_struct(fdt) == fdt.off_dt_struct
fdt_off_mem_rsvmap(fdt) == fdt.off_mem_rsvmap
fdt_off_dt_strings(fdt) == fdt.off_dt_strings
fdt_size_dt_strings(fdt) == fdt.size_dt_strings
fdt_size_dt_struct(fdt) == fdt.size_dt_struct

\* index of the tag at a structure-block offset
TagIndex(fdt, offset) ==
    CHOOSE i \in 1..Len(fdt.tags) : fdt.offs[i] = offset

\* fdt_next_tag: the tag at offset and the offset of the following tag
fdt_next_tag(fdt, offset) ==
    LET i == TagIndex(fdt, offset)
    IN [tag |-> fdt.tags[i].tag, nextoffset |-> fdt.offs[i + 1]]

fdt_get_name(fdt, offset) == fdt.tags[TagIndex(fdt, offset)].name

\* fdt_string(fdt, prop->nameoff) of the property at offset
PropName(fdt, offset) == fdt.tags[TagIndex(fdt, offset)].name

COMPATIBLE == <<"c", "o", "m", "p", "a", "t", "i", "b", "l", "e">>

RECURSIVE FindProp(_, _, _)
\* the properties of a node follow its BEGIN_NODE tag, before any subnode
FindProp(fdt, i, name) ==
    IF i > Len(fdt.tags) THEN 0
    ELSE IF fdt.tags[i].tag = "NOP" THEN FindProp(fdt, i + 1, name)
    ELSE IF fdt.tags[i].tag # "PROP" THEN 0
    ELSE IF fdt.tags[i].name = name THEN i
    ELSE FindProp(fdt, i + 1, name)

\* fdt_getprop: [data, len]; a missing property gives no data and a
\* negative length
fdt_getprop(fdt, offset, name) ==
    LET i == FindProp(fdt, TagIndex(fdt, offset) + 1, name)
    IN IF i = 0 THEN [data |-> <<>>, len |-> -1]
       ELSE [data |-> fdt.tags[i].data, len |-> Len(fdt.tags[i].data)]

(***************************************************************************)
(* String lists.                                                           *)
(***************************************************************************)
RECURSIVE SplitNul(_, _, _)
\* members of the NUL-separated list in data[i..n]; cur is the member being
\* read.  Bytes after the last NUL form no member.
SplitNul(data, i, cur) ==
    IF i > Len(data) THEN {}
    ELSE IF data[i] = NUL THEN {cur} \cup SplitNul(data, i + 1, <<>>)
    ELSE SplitNul(data, i + 1, Append(cur, data[i]))

\* fdt_stringlist_contains: str is a member of the first listlen bytes
fdt_stringlist_contains(strlist, listlen, str) ==
    IF listlen < Len(str) THEN FALSE
    ELSE str \in SplitNul(SubSeq(strlist, 1, listlen), 1, <<>>)

(***************************************************************************)
(* The predicate of fdtgrep.c.  disp is the display_info: flags (a set of  *)
(* FDT_REG_ names), types_inc, types_exc, invert and value_head, the list  *)
(* of value_node records [type, include, string], head first.              *)
(***************************************************************************)
\* value_add that accepts every condition
value_addUnchecked(disp, type, include, str) ==
    [disp |-> [disp EXCEPT
                  !.types_inc = IF include = 1 THEN @ \cup type ELSE @,
                  !.types_exc = IF include = 1 THEN @ ELSE @ \cup type,
                  !.value_head = <<[type |-> type, include |-> include,
                                    string |-> str]>> \o @],
     rc |-> 0]

\* value_add: [disp, rc]; the masks are updated before the conflict check,
\* the node is pushed at the head of the list on success
value_add(disp, type, include, str) ==
    LET d1 == IF include = 1
              THEN [disp EXCEPT !.types_inc = @ \cup type]
              ELSE [disp EXCEPT !.types_exc = @ \cup type]
    IN IF (d1.types_inc \cap d1.types_exc \cap type) # {}
       THEN [disp |-> d1, rc |-> -1]
       ELSE [disp |-> [d1 EXCEPT !.value_head =
                          <<[type |-> type, include |-> include,
                             string |-> str]>> \o @],
             rc |-> 0]

RECURSIVE ScanValues(_, _, _, _, _, _)
\* the loop in which a matching exclude condition leaves none_match as it is
ScanValuesNoClear(vals, i, type, data, size, none_match) ==
    IF i > Len(vals) THEN [hit |-> FALSE, none_match |-> none_match]
    ELSE IF (type \cap vals[i].type) = {}
         THEN ScanValues(vals, i + 1, type, data, size, none_match)
    ELSE IF fdt_stringlist_contains(data, size, vals[i].string)
            /\ vals[i].include = 1
         THEN [hit |-> TRUE, none_match |-> none_match]
    ELSE ScanValues(vals, i + 1, type, data, size, none_match)

\* the loop of check_type_include over the value list from node i on:
\* [hit |-> TRUE] at the first matching include rule, else the none_match
\* mask left after the pass
ScanValues(vals, i, type, data, size, none_match) ==
    IF i > Len(vals) THEN [hit |-> FALSE, none_match |-> none_match]
    ELSE IF (type \cap vals[i].type) = {}
         THEN ScanValues(vals, i + 1, type, data, size, none_match)
    ELSE LET match == fdt_stringlist_contains(data, size, vals[i].string)
         IN IF match /\ vals[i].include = 1
            THEN [hit |-> TRUE, none_match |-> none_match]
            ELSE ScanValues(vals, i + 1, type, data, size,
                            IF match THEN none_match \ vals[i].type
                            ELSE none_match)

\* check_type_include that excludes what no condition mentions
check_type_includeClosed(disp, type, data, size) ==
    IF ((disp.types_inc \cup disp.types_exc) \cap type) = {} THEN 0
    ELSE LET r == ScanValues(disp.value_head, 1, type, data, size, FDT_IS_ANY)
         IN IF r.hit THEN 1
            ELSE IF (type \cap disp.types_exc) # {} /\ (r.none_match \cap type) # {}
                 THEN (IF type = FDT_IS_NODE /\ disp.types_exc = FDT_IS_ANY
                       THEN -1 ELSE 1)
            ELSE IF type = FDT_IS_NODE /\ disp.types_inc = FDT_IS_ANY THEN -1
            ELSE 0

\* check_type_include: 1 include, 0 exclude, -1 do not know
check_type_include(disp, type, data, size) ==
    IF ((disp.types_inc \cup disp.types_exc) \cap type) = {} THEN -1
    ELSE LET r == ScanValues(disp.value_head, 1, type, data, size, FDT_IS_ANY)
         IN IF r.hit THEN 1
            ELSE IF (type \cap disp.types_exc) # {} /\ (r.none_match \cap type) # {}
                 THEN (IF type = FDT_IS_NODE /\ disp.types_exc = FDT_IS_ANY
                       THEN -1 ELSE 1)
            ELSE IF type = FDT_IS_NODE /\ disp.types_inc = FDT_IS_ANY THEN -1
            ELSE 0

\* the switch of h_include that leaves every answer as it is
PolarityKept(disp, inc) == inc

\* the switch of h_include: an answer of 1 or 0 follows disp->invert
Polarity(disp, inc) ==
    CASE inc = 1 -> (IF disp.invert = 1 THEN 0 ELSE 1)
      [] inc = 0 -> disp.invert
      [] OTHER -> inc

\* the second look of h_include, at the compatible property of the node
CheckCompat(disp, compat) ==
    check_type_include(disp, FDT_IS_COMPAT, compat.data, compat.len)

\* h_include after its first call of check_type_include, which gave inc
SecondLook(disp, fdt, offset, type, inc) ==
    IF inc = -1 /\ type = FDT_IS_NODE
    THEN CheckCompat(disp, fdt_getprop(fdt, offset, COMPATIBLE))
    ELSE inc

\* h_include without the second look, at the compatible property
h_includeNoCompat(disp, fdt, offset, type, data, size) ==
    Polarity(disp, check_type_include(disp, type, data, size))

\* h_include: the handler given to the walk
h_include(disp, fdt, offset, type, data, size) ==
    Polarity(disp, SecondLook(disp, fdt, offset, type,
                              check_type_include(disp, type, data, size)))

\* scan_args, one option: [disp, rc].  An option is [opt, arg].
ScanOption(disp, o) ==
    CASE o.opt = "c" -> value_add(disp, FDT_IS_COMPAT, 1, o.arg)
      [] o.opt = "C" -> value_add(disp, FDT_IS_COMPAT, 0, o.arg)
      [] o.opt = "g" -> value_add(disp, FDT_IS_ANY, 1, o.arg)
      [] o.opt = "G" -> value_add(disp, FDT_IS_ANY, 0, o.arg)
      [] o.opt = "n" -> value_add(disp, FDT_IS_NODE, 1, o.arg)
      [] o.opt = "N" -> value_add(disp, FDT_IS_NODE, 0, o.arg)
      [] o.opt = "p" -> value_add(disp, FDT_IS_PROP, 1, o.arg)
      [] o.opt = "P" -> value_add(disp, FDT_IS_PROP, 0, o.arg)
      [] o.opt = "e" -> [disp |-> [disp EXCEPT !.flags = @ \cup {"DIRECT_SUBNODES"}], rc |-> 0]
      [] o.opt = "s" -> [disp |-> [disp EXCEPT !.flags = @ \cup {"ALL_SUBNODES"}], rc |-> 0]
      [] o.opt = "S" -> [disp |-> [disp EXCEPT !.flags = @ \ {"SUPERNODES"}], rc |-> 0]
      [] o.opt = "m" -> [disp |-> [disp EXCEPT !.flags = @ \cup {"ADD_MEM_RSVMAP"}], rc |-> 0]
      [] o.opt = "t" -> [disp |-> [disp EXCEPT !.flags = @ \cup {"ADD_STRING_TAB"}], rc |-> 0]
      [] o.opt = "v" -> [disp |-> [disp EXCEPT !.invert = 1], rc |-> 0]

\* main: the defaults before scan_args
DefaultDisp ==
    [flags |-> {"SUPERNODES"}, types_inc |-> {}, types_exc |-> {},
     invert |-> 0, value_head |-> <<>>]

(***************************************************************************)
(* The walk of fdt_region.c.  st is the memory a call works on:            *)
(*   info   the fdt_region_state: can_merge, max_regions, start, count,    *)
(*          region (index in the caller's array of the element the call    *)
(*          was given), ptrs [want, end, nextoffset, depth, done] and      *)
(*          stack, FDT_MAX_DEPTH frames [offset, want, included];          *)
(*   path   the caller's path buffer, ptrs.end an index into it;           *)
(*   region the caller's region array;                                     *)
(*   oob    the memory written outside the region array, by index;         *)
(*   wrote  history: the highest offset from path at which a byte was      *)
(*          written, -1 before the first write;                            *)
(*   adds   history: the regions handed to fdt_add_region by the current   *)
(*          call, with the result of each;                                 *)
(*   seen   history: for each tag whose iteration committed, in order, the *)
(*          value of ptrs.want when the tag was read;                      *)
(*   open   history: for the same tags, whether a region was open          *)
(*          (start # -1) when the tag was read.                            *)
(***************************************************************************)
StaleRegion == [offset |-> -1, size |-> -1]

RegAt(st, k) ==
    IF k >= 0 /\ k < Len(st.region) THEN st.region[k + 1]
    ELSE IF k \in DOMAIN st.oob THEN st.oob[k]
    ELSE StaleRegion

WriteReg(st, k, r) ==
    IF k >= 0 /\ k < Len(st.region)
    THEN [st EXCEPT !.region[k + 1] = r]
    ELSE [st EXCEPT !.oob = [j \in DOMAIN @ \cup {k} |->
                                 IF j = k THEN r ELSE @[j]]]

Logged(st, offset, size, rc) ==
    [st EXCEPT !.adds = Append(@, [offset |-> offset, size |-> size, rc |-> rc])]


\* fdt_add_region that never finds the array full
fdt_add_regionNoLimit(st, offset, size) ==
    LET info == st.info
        reg == info.region + info.count - 1
        last == RegAt(st, reg)
    IN IF /\ info.can_merge = 1
          /\ info.count # 0
          /\ offset <= last.offset + last.size
       THEN [st |-> Logged(WriteReg(st, reg,
                               [offset |-> last.offset,
                                size |-> offset + size - last.offset]),
                           offset, size, 0),
             rc |-> 0]
       ELSE [st |-> Logged(WriteReg([st EXCEPT !.info.count = @ + 1], reg + 1,
                               [offset |-> offset, size |-> size]),
                           offset, size, 0),
             rc |-> 0]


\* fdt_add_region that merges only a region that overlaps the last one
fdt_add_regionOverlapOnly(st, offset, size) ==
    LET info == st.info
        reg == info.region + info.count - 1
        last == RegAt(st, reg)
    IN IF /\ info.can_merge = 1
          /\ info.count # 0
          /\ info.count <= info.max_regions
          /\ offset < last.offset + last.size
       THEN [st |-> Logged(WriteReg(st, reg,
                               [offset |-> last.offset,
                                size |-> offset + size - last.offset]),
                           offset, size, 0),
             rc |-> 0]
       ELSE IF info.count < info.max_regions
       THEN [st |-> Logged(WriteReg([st EXCEPT !.info.count = @ + 1], reg + 1,
                               [offset |-> offset, size |-> size]),
                           offset, size, 0),
             rc |-> 0]
       ELSE [st |-> Logged([st EXCEPT !.info.count = @ + 1], offset, size, -1),
             rc |-> -1]

\* fdt_add_region: [st, rc]
fdt_add_region(st, offset, size) ==
    LET info == st.info
        reg == info.region + info.count - 1
        last == RegAt(st, reg)
    IN IF /\ info.can_merge = 1
          /\ info.count # 0
          /\ info.count <= info.max_regions
          /\ offset <= last.offset + last.size
       THEN [st |-> Logged(WriteReg(st, reg,
                               [offset |-> last.offset,
                                size |-> offset + size - last.offset]),
                           offset, size, 0),
             rc |-> 0]
       ELSE IF info.count < info.max_regions
       THEN [st |-> Logged(WriteReg([st EXCEPT !.info.count = @ + 1], reg + 1,
                               [offset |-> offset, size |-> size]),
                           offset, size, 0),
             rc |-> 0]
       ELSE [st |-> Logged([st EXCEPT !.info.count = @ + 1], offset, size, -1),
             rc |-> -1]

\* fdt_include_supernodes that adds nothing
IncludeSupernodesNone(st, fdt, i, depth) == [st |-> st, rc |-> 0]

RECURSIVE IncludeSupernodes(_, _, _, _)
\* the loop of fdt_include_supernodes from frame i on
IncludeSupernodes(st, fdt, i, depth) ==
    IF i > depth THEN [st |-> st, rc |-> 0]
    ELSE LET fr == st.info.stack[i]
             start == fr.offset
             stop_at == fdt_next_tag(fdt, start).nextoffset
             a == IF fr.included = 0
                  THEN fdt_add_region(st, fdt_off_dt_struct(fdt) + start,
                                      stop_at - start)
                  ELSE [st |-> st, rc |-> 0]
             st1 == IF fr.included = 0
                    THEN [a.st EXCEPT !.info.stack[i].included = 1,
                                      !.info.can_merge = 1]
                    ELSE st
             st2 == IF st1.info.stack[i].want = WANT_NOTHING
                    THEN [st1 EXCEPT !.info.stack[i].want = WANT_NODES_ONLY]
                    ELSE st1
         IN IF a.rc # 0 THEN [st |-> a.st, rc |-> -1]
            ELSE IncludeSupernodes(st2, fdt, i + 1, depth)

\* fdt_include_supernodes: [st, rc]
fdt_include_supernodes(st, fdt, depth) == IncludeSupernodes(st, fdt, 0, depth)

\* fdt_first_region that leaves start and can_merge as it finds them
FirstStateStartKept(st, max_regions) ==
    [st EXCEPT !.wrote = IF @ < 0 THEN 0 ELSE @,
               !.info.max_regions = max_regions,
               !.info.ptrs = [want |-> WANT_NOTHING, end |-> 0,
                              nextoffset |-> 0, depth |-> -1,
                              done |-> FDT_DONE_NOTHING],
               !.path[1] = NUL]

\* the state set up by fdt_first_region before it calls fdt_next_region;
\* max_regions is 1 in the source
FirstState(st, max_regions) ==
    [st EXCEPT !.wrote = IF @ < 0 THEN 0 ELSE @,
               !.info.can_merge = 1,
               !.info.max_regions = max_regions,
               !.info.start = -1,
               !.info.ptrs = [want |-> WANT_NOTHING, end |-> 0,
                              nextoffset |-> 0, depth |-> -1,
                              done |-> FDT_DONE_NOTHING],
               !.path[1] = NUL]

\* fdt_next_region up to its loop: [st, rc]; rc = 1 stands for 'go on'
\* the entry of fdt_next_region without can_merge = 0 after the mem-reserve
\* map
NextEntryMerging(st0, fdt, flags, region) ==
    LET st == [st0 EXCEPT !.info.region = region, !.info.count = 0,
                          !.adds = <<>>]
    IN IF st.info.ptrs.done < FDT_DONE_MEM_RSVMAP /\ "ADD_MEM_RSVMAP" \in flags
       THEN LET a == fdt_add_region(st, fdt_off_mem_rsvmap(fdt),
                         fdt_off_dt_struct(fdt) - fdt_off_mem_rsvmap(fdt))
            IN IF a.rc # 0 THEN [st |-> a.st, rc |-> 0]
               ELSE [st |-> [a.st EXCEPT !.info.can_merge = 1,
                                        !.info.ptrs.done = FDT_DONE_MEM_RSVMAP],
                     rc |-> 1]
       ELSE [st |-> st, rc |-> 1]

NextEntry(st0, fdt, flags, region) ==
    LET st == [st0 EXCEPT !.info.region = region, !.info.count = 0,
                          !.adds = <<>>]
    IN IF st.info.ptrs.done < FDT_DONE_MEM_RSVMAP /\ "ADD_MEM_RSVMAP" \in flags
       THEN LET a == fdt_add_region(st, fdt_off_mem_rsvmap(fdt),
                         fdt_off_dt_struct(fdt) - fdt_off_mem_rsvmap(fdt))
            IN IF a.rc # 0 THEN [st |-> a.st, rc |-> 0]
               ELSE [st |-> [a.st EXCEPT !.info.can_merge = 0,
                                        !.info.ptrs.done = FDT_DONE_MEM_RSVMAP],
                     rc |-> 1]
       ELSE [st |-> st, rc |-> 1]

\* strcpy(path + at, name)
StrCpy(path, at, name) ==
    [k \in 1..Len(path) |->
        IF k - 1 >= at /\ k - 1 < at + Len(name) THEN name[k - at]
        ELSE IF k - 1 = at + Len(name) THEN NUL
        ELSE path[k]]

RECURSIVE ScanBack(_, _)
\* while (p.end > path && *--p.end != '/') ;
ScanBack(path, end) ==
    IF end > 0
    THEN (IF path[end] # "/" THEN ScanBack(path, end - 1) ELSE end - 1)
    ELSE end

\* h_include asked about the property at offset, by its name
PropVal(fdt, disp, offset, str) ==
    h_include(disp, fdt, offset, FDT_IS_PROP, Append(str, NUL), Len(str) + 1)

\* The cases of the switch.  Each gives [rc, st, p, include, stop_at]: rc is
\* "OK" or the error returned at once, st the memory after the case, p the
\* local copy of the pointers.
\* FDT_PROP that takes a property the predicate does not know as soon as
\* want is not Nothing
PropDecidedAnyWant(st, disp, p, offset, val) ==
    [rc |-> "OK", st |-> st,
     p |-> IF val # -1 /\ "SUPERNODES" \in disp.flags /\ val # 0
              /\ p.want = WANT_NOTHING
           THEN [p EXCEPT !.want = WANT_NODES_ONLY] ELSE p,
     include |-> IF val = -1
                 THEN (IF p.want >= WANT_NODES_ONLY THEN 1 ELSE 0)
                 ELSE val,
     stop_at |-> offset]

\* FDT_PROP once h_include has answered val
PropDecided(st, disp, p, offset, val) ==
    [rc |-> "OK", st |-> st,
     p |-> IF val # -1 /\ "SUPERNODES" \in disp.flags /\ val # 0
              /\ p.want = WANT_NOTHING
           THEN [p EXCEPT !.want = WANT_NODES_ONLY] ELSE p,
     include |-> IF val = -1
                 THEN (IF p.want >= WANT_NODES_AND_PROPS THEN 1 ELSE 0)
                 ELSE val,
     stop_at |-> offset]

\* FDT_PROP with a property the predicate does not know always left out
CasePropKnownOnly(st, fdt, disp, p, offset) ==
    LET val == PropVal(fdt, disp, offset, PropName(fdt, offset))
    IN [rc |-> "OK", st |-> st, p |-> p,
        include |-> IF val = -1 THEN 0 ELSE val,
        stop_at |-> offset]

CaseProp(st, fdt, disp, p, offset) ==
    PropDecided(st, disp, p, offset,
                PropVal(fdt, disp, offset, PropName(fdt, offset)))

CaseNop(st, p, offset) ==
    [rc |-> "OK", st |-> st, p |-> p,
     include |-> IF p.want >= WANT_NODES_AND_PROPS THEN 1 ELSE 0,
     stop_at |-> offset]

\* want that does not decay at a node the predicate leaves out
NodeWantNoDecay(disp, want1, val) ==
    IF val # 0
    THEN (IF "ALL_SUBNODES" \in disp.flags
          THEN WANT_ALL_NODES_AND_PROPS
          ELSE WANT_NODES_AND_PROPS)
    ELSE want1


\* FDT_BEGIN_NODE that takes only an answer of 1 for "include"
NodeWantKnownOnly(disp, want1, val) ==
    IF val = 1
    THEN (IF "ALL_SUBNODES" \in disp.flags
          THEN WANT_ALL_NODES_AND_PROPS
          ELSE WANT_NODES_AND_PROPS)
    ELSE IF want1 # WANT_NOTHING
    THEN (IF want1 # WANT_ALL_NODES_AND_PROPS THEN want1 - 1 ELSE want1)
    ELSE want1

\* FDT_BEGIN_NODE from the decay of want on: want1 is want after the reset
\* before h_include, val the answer of h_include
NodeWant(disp, want1, val) ==
    IF val # 0
    THEN (IF "ALL_SUBNODES" \in disp.flags
          THEN WANT_ALL_NODES_AND_PROPS
          ELSE WANT_NODES_AND_PROPS)
    ELSE IF want1 # WANT_NOTHING
    THEN (IF want1 # WANT_ALL_NODES_AND_PROPS THEN want1 - 1 ELSE want1)
    ELSE want1

\* FDT_BEGIN_NODE once the path is built (path2, ending at e2) and want is
\* known (want2)
NodeDecided(st, p0, offset, depth, path2, e2, want2, stop_at) ==
    [rc |-> "OK",
     st |-> [st EXCEPT !.path = path2,
                       !.wrote = IF @ < e2 THEN e2 ELSE @,
                       !.info.stack[depth] =
                           [offset |-> offset, want |-> p0.want,
                            included |-> want2]],
     p |-> [p0 EXCEPT !.depth = depth, !.end = e2, !.want = want2],
     include |-> want2,
     stop_at |-> stop_at]

\* FDT_BEGIN_NODE once h_include has answered val for the path
NodeAnswered(st, disp, p0, offset, path2, e2, val) ==
    NodeDecided(st, p0, offset, p0.depth + 1, path2, e2,
        NodeWant(disp,
                 IF \/ p0.want = WANT_NODES_ONLY
                    \/ (disp.flags \cap {"DIRECT_SUBNODES", "ALL_SUBNODES"}) = {}
                 THEN WANT_NOTHING ELSE p0.want,
                 val),
        IF \/ p0.want = WANT_NODES_ONLY
           \/ (disp.flags \cap {"DIRECT_SUBNODES", "ALL_SUBNODES"}) = {}
           \/ (val = 0 /\ p0.want = WANT_NOTHING)
        THEN offset ELSE p0.nextoffset)

\* FDT_BEGIN_NODE once the path is built: h_include is asked
NodeNamed(st, fdt, disp, p0, offset, path2, e2) ==
    NodeAnswered(st, disp, p0, offset, path2, e2,
                 h_include(disp, fdt, offset, FDT_IS_NODE, path2, e2 + 1))

\* FDT_BEGIN_NODE: the path of the node is built at e1, after the '/'
NodePath(st, fdt, disp, p0, offset, name, e1) ==
    NodeNamed(st, fdt, disp, p0, offset,
              StrCpy(IF p0.end # 1 THEN [st.path EXCEPT ![p0.end + 1] = "/"]
                     ELSE st.path,
                     e1, name),
              e1 + Len(name))

\* FDT_BEGIN_NODE that leaves the '/' and the NUL out of the space test
CaseBeginNodeTight(st, fdt, disp, path_len, p0, offset, name) ==
    IF p0.depth + 1 = FDT_MAX_DEPTH
    THEN [rc |-> "TOODEEP", st |-> st, p |-> p0, include |-> 0, stop_at |-> 0]
    ELSE IF p0.end + Len(name) >= path_len
    THEN [rc |-> "NOSPACE", st |-> st, p |-> p0, include |-> 0, stop_at |-> 0]
    ELSE NodePath(st, fdt, disp, p0, offset, name,
                  IF p0.end # 1 THEN p0.end + 1 ELSE p0.end)

\* FDT_BEGIN_NODE that tests the depth one node too late
CaseBeginNodeLate(st, fdt, disp, path_len, p0, offset, name) ==
    IF p0.depth + 1 > FDT_MAX_DEPTH
    THEN [rc |-> "TOODEEP", st |-> st, p |-> p0, include |-> 0, stop_at |-> 0]
    ELSE IF p0.end + 2 + Len(name) >= path_len
    THEN [rc |-> "NOSPACE", st |-> st, p |-> p0, include |-> 0, stop_at |-> 0]
    ELSE NodePath(st, fdt, disp, p0, offset, name,
                  IF p0.end # 1 THEN p0.end + 1 ELSE p0.end)

CaseBeginNodeNamed(st, fdt, disp, path_len, p0, offset, name) ==
    IF p0.depth + 1 = FDT_MAX_DEPTH
    THEN [rc |-> "TOODEEP", st |-> st, p |-> p0, include |-> 0, stop_at |-> 0]
    ELSE IF p0.end + 2 + Len(name) >= path_len
    THEN [rc |-> "NOSPACE", st |-> st, p |-> p0, include |-> 0, stop_at |-> 0]
    ELSE NodePath(st, fdt, disp, p0, offset, name,
                  IF p0.end # 1 THEN p0.end + 1 ELSE p0.end)

CaseBeginNode(st, fdt, disp, path_len, p0, offset) ==
    CaseBeginNodeNamed(st, fdt, disp, path_len, p0, offset,
                       fdt_get_name(fdt, offset))


\* FDT_END_NODE that stops before the tag whenever the node is not wanted,
\* whatever the flags
CaseEndNodeStopAlways(st, disp, p, offset) ==
    LET end == ScanBack(st.path, p.end)
    IN IF p.depth < 0
       THEN [rc |-> "BADSTRUCTURE", st |-> st, p |-> p, include |-> 0,
             stop_at |-> 0]
       ELSE [rc |-> "OK",
             st |-> [st EXCEPT !.path[end + 1] = NUL,
                               !.wrote = IF @ < end THEN end ELSE @],
             p |-> [p EXCEPT !.want = st.info.stack[p.depth].want,
                             !.depth = @ - 1, !.end = end],
             include |-> p.want,
             stop_at |-> IF p.want = WANT_NOTHING
                         THEN offset ELSE p.nextoffset]

\* FDT_END_NODE that leaves want as the closed node had it
CaseEndNodeKeepWant(st, disp, p, offset) ==
    LET end == ScanBack(st.path, p.end)
    IN IF p.depth < 0
       THEN [rc |-> "BADSTRUCTURE", st |-> st, p |-> p, include |-> 0,
             stop_at |-> 0]
       ELSE [rc |-> "OK",
             st |-> [st EXCEPT !.path[end + 1] = NUL,
                               !.wrote = IF @ < end THEN end ELSE @],
             p |-> [p EXCEPT !.depth = @ - 1, !.end = end],
             include |-> p.want,
             stop_at |-> IF p.want = WANT_NOTHING
                            /\ "DIRECT_SUBNODES" \notin disp.flags
                         THEN offset ELSE p.nextoffset]

CaseEndNode(st, disp, p, offset) ==
    LET end == ScanBack(st.path, p.end)
    IN IF p.depth < 0
       THEN [rc |-> "BADSTRUCTURE", st |-> st, p |-> p, include |-> 0,
             stop_at |-> 0]
       ELSE [rc |-> "OK",
             st |-> [st EXCEPT !.path[end + 1] = NUL,
                               !.wrote = IF @ < end THEN end ELSE @],
             p |-> [p EXCEPT !.want = st.info.stack[p.depth].want,
                             !.depth = @ - 1, !.end = end],
             include |-> p.want,
             stop_at |-> IF p.want = WANT_NOTHING
                            /\ "DIRECT_SUBNODES" \notin disp.flags
                         THEN offset ELSE p.nextoffset]

\* FDT_END treated as a tag nothing asked for
CaseEndLeftOut(st, p) ==
    [rc |-> "OK", st |-> st, p |-> [p EXCEPT !.done = FDT_DONE_STRUCT],
     include |-> 0, stop_at |-> p.nextoffset - FDT_TAGSIZE]

CaseEnd(st, p) ==
    [rc |-> "OK", st |-> st, p |-> [p EXCEPT !.done = FDT_DONE_STRUCT],
     include |-> 1, stop_at |-> p.nextoffset]

\* the switch on the tag t read at offset; p1 is the local copy of the
\* pointers, nextoffset set
Switch(st, fdt, disp, path_len, t, p1, offset) ==
    CASE t.tag = "PROP" -> CaseProp(st, fdt, disp, p1, offset)
      [] t.tag = "NOP" -> CaseNop(st, p1, offset)
      [] t.tag = "BEGIN_NODE" -> CaseBeginNode(st, fdt, disp, path_len, p1, offset)
      [] t.tag = "END_NODE" -> CaseEndNode(st, disp, p1, offset)
      [] OTHER -> CaseEnd(st, p1)

\* "if (include && info->start == -1)": c is what the switch gave.  Gives c
\* with the memory after the supernodes are added and the region is marked
\* open, rc "FULL" when fdt_include_supernodes failed.
OpenWith(c, offset, sup) ==
    IF sup.rc # 0 THEN [c EXCEPT !.rc = "FULL", !.st = sup.st]
    ELSE [c EXCEPT !.st = [sup.st EXCEPT !.info.start = offset]]

OpenRegion(c, fdt, flags, offset) ==
    IF c.rc # "OK" \/ c.include = 0 \/ c.st.info.start # -1 THEN c
    ELSE IF "SUPERNODES" \in flags
    THEN OpenWith(c, offset, fdt_include_supernodes(c.st, fdt, c.p.depth))
    ELSE OpenWith(c, offset, [st |-> c.st, rc |-> 0])

\* the pointers committed whether or not the region could be stored
CloseWithEager(c, a) ==
    IF a.rc # 0 THEN [rc |-> "OK", st |-> [a.st EXCEPT !.info.ptrs = c.p]]
    ELSE [rc |-> "GO",
          st |-> [a.st EXCEPT !.info.start = -1, !.info.can_merge = 1,
                              !.info.ptrs = c.p]]


\* the close of a region that leaves start as it was
CloseWithStartKept(c, a) ==
    IF a.rc # 0 THEN [rc |-> "OK", st |-> a.st]
    ELSE [rc |-> "GO",
          st |-> [a.st EXCEPT !.info.can_merge = 1, !.info.ptrs = c.p]]

\* "if (!include && info->start != -1)" and the commit of the pointers
CloseWith(c, a) ==
    IF a.rc # 0 THEN [rc |-> "OK", st |-> a.st]
    ELSE [rc |-> "GO",
          st |-> [a.st EXCEPT !.info.start = -1, !.info.can_merge = 1,
                              !.info.ptrs = c.p]]

CloseRegion(c, fdt) ==
    IF c.rc = "FULL" THEN [rc |-> "OK", st |-> c.st]
    ELSE IF c.rc # "OK" THEN [rc |-> c.rc, st |-> c.st]
    ELSE IF c.include = 0 /\ c.st.info.start # -1
    THEN CloseWith(c, fdt_add_region(c.st, fdt_off_dt_struct(fdt) + c.st.info.start,
                                     c.stop_at - c.st.info.start))
    ELSE [rc |-> "GO", st |-> [c.st EXCEPT !.info.ptrs = c.p]]

\* the body of the loop on the tag t at offset
LoopOn(st, fdt, disp, path_len, t, offset) ==
    CloseRegion(
        OpenRegion(Switch(st, fdt, disp, path_len, t,
                          [st.info.ptrs EXCEPT !.nextoffset = t.nextoffset],
                          offset),
                   fdt, disp.flags, offset),
        fdt)

\* one iteration of the loop of fdt_next_region: [rc, st], rc "GO" when the
\* iteration committed, else what the call returns
LoopBody(st, fdt, disp, path_len) ==
    LoopOn(st, fdt, disp, path_len,
           fdt_next_tag(fdt, st.info.ptrs.nextoffset), st.info.ptrs.nextoffset)

\* the tail with its two steps exchanged: the string table is added before
\* the region that ends the structure block
NextTailStringsFirst(st, fdt, flags) ==
    LET strs == st.info.ptrs.done < FDT_DONE_END /\ "ADD_STRING_TAB" \in flags
        st0 == IF strs THEN [st EXCEPT !.info.can_merge = 0] ELSE st
        b == IF strs
             THEN fdt_add_region(st0, fdt_off_dt_strings(fdt),
                                 fdt_size_dt_strings(fdt))
             ELSE [st |-> st0, rc |-> 0]
        st1 == IF strs THEN [b.st EXCEPT !.info.ptrs.done = FDT_DONE_END] ELSE st0
        ends == IF strs THEN TRUE
                ELSE st.info.ptrs.done < FDT_DONE_END
                     \/ (st.info.ptrs.done < FDT_DONE_STRINGS
                         /\ "ADD_STRING_TAB" \in flags)
        a == IF ends
             THEN fdt_add_region(st1, fdt_off_dt_struct(fdt) + st1.info.start,
                                 st1.info.ptrs.nextoffset - st1.info.start)
             ELSE [st |-> st1, rc |-> 0]
        st2 == IF ends
               THEN [a.st EXCEPT !.info.ptrs.done =
                        IF "ADD_STRING_TAB" \in flags THEN FDT_DONE_STRINGS
                        ELSE FDT_DONE_END]
               ELSE st1
    IN IF b.rc # 0 THEN [rc |-> "OK", st |-> b.st]
       ELSE IF a.rc # 0 THEN [rc |-> "OK", st |-> a.st]
       ELSE [rc |-> IF st2.info.count > 0 THEN "OK" ELSE "NOTFOUND", st |-> st2]

\* the tail without the test of the offset reached against size_dt_struct
NextTailUnchecked(st, fdt, flags) ==
    LET a == IF st.info.ptrs.done < FDT_DONE_END
             THEN fdt_add_region(st, fdt_off_dt_struct(fdt) + st.info.start,
                                 st.info.ptrs.nextoffset - st.info.start)
             ELSE [st |-> st, rc |-> 0]
        st1 == IF st.info.ptrs.done < FDT_DONE_END
               THEN [a.st EXCEPT !.info.ptrs.done = @ + 1]
               ELSE st
        strs == st1.info.ptrs.done < FDT_DONE_STRINGS
                /\ "ADD_STRING_TAB" \in flags
        st2 == IF strs THEN [st1 EXCEPT !.info.can_merge = 0] ELSE st1
        b == IF strs
             THEN fdt_add_region(st2, fdt_off_dt_strings(fdt),
                                 fdt_size_dt_strings(fdt))
             ELSE [st |-> st2, rc |-> 0]
        st3 == IF strs THEN [b.st EXCEPT !.info.ptrs.done = @ + 1] ELSE st2
    IN IF a.rc # 0 THEN [rc |-> "OK", st |-> a.st]
       ELSE IF b.rc # 0 THEN [rc |-> "OK", st |-> b.st]
       ELSE [rc |-> IF st3.info.count > 0 THEN "OK" ELSE "NOTFOUND", st |-> st3]

\* fdt_next_region after its loop: [rc, st]
NextTail(st, fdt, flags) ==
    LET bad == st.info.ptrs.done < FDT_DONE_END
               /\ st.info.ptrs.nextoffset # fdt_size_dt_struct(fdt)
        a == IF st.info.ptrs.done < FDT_DONE_END
             THEN fdt_add_region(st, fdt_off_dt_struct(fdt) + st.info.start,
                                 st.info.ptrs.nextoffset - st.info.start)
             ELSE [st |-> st, rc |-> 0]
        st1 == IF st.info.ptrs.done < FDT_DONE_END
               THEN [a.st EXCEPT !.info.ptrs.done = @ + 1]
               ELSE st
        strs == st1.info.ptrs.done < FDT_DONE_STRINGS
                /\ "ADD_STRING_TAB" \in flags
        st2 == IF strs THEN [st1 EXCEPT !.info.can_merge = 0] ELSE st1
        layout == strs /\ fdt_off_dt_strings(fdt)
                            < fdt_off_dt_struct(fdt) + st2.info.ptrs.nextoffset
        b == IF strs
             THEN fdt_add_region(st2, fdt_off_dt_strings(fdt),
                                 fdt_size_dt_strings(fdt))
             ELSE [st |-> st2, rc |-> 0]
        st3 == IF strs THEN [b.st EXCEPT !.info.ptrs.done = @ + 1] ELSE st2
    IN IF bad THEN [rc |-> "BADSTRUCTURE", st |-> st]
       ELSE IF a.rc # 0 THEN [rc |-> "OK", st |-> a.st]
       ELSE IF layout THEN [rc |-> "BADLAYOUT", st |-> st2]
       ELSE IF b.rc # 0 THEN [rc |-> "OK", st |-> b.st]
       ELSE [rc |-> IF st3.info.count > 0 THEN "OK" ELSE "NOTFOUND", st |-> st3]

(***************************************************************************)
(* Inputs: blobs and command lines.                                        *)
(***************************************************************************)
Root == <<>>
Cell(c) == <<NUL, NUL, NUL, c>>
StrVal(str) == Append(str, NUL)
Opt(o) == [opt |-> o, arg |-> <<>>]
OptArg(o, a) == [opt |-> o, arg |-> a]

\* / { a { b = <1>; c = <2>; }; d { }; };
Scenario1 ==
    MkBlob(<<BeginNode(Root), BeginNode(<<"a">>), Prop(<<"b">>, Cell("1")),
             Prop(<<"c">>, Cell("2")), EndNode, BeginNode(<<"d">>), EndNode,
             EndNode, End>>, 1, 0)

\* / { soc { uart { compatible = "v,u"; reg = <..>; };
\*           gpio { compatible = "v,g"; }; }; };
Scenario3 ==
    MkBlob(<<BeginNode(Root), BeginNode(<<"s", "o", "c">>),
             BeginNode(<<"u", "a", "r", "t">>),
             Prop(COMPATIBLE, StrVal(<<"v", ",", "u">>)),
             Prop(<<"r", "e", "g">>, Cell("1") \o Cell("2")), EndNode,
             BeginNode(<<"g", "p", "i", "o">>),
             Prop(COMPATIBLE, StrVal(<<"v", ",", "g">>)), EndNode,
             EndNode, EndNode, End>>, 1, 0)

\* / { b = <1>; a { y { b = <1>; }; d { }; }; };
Nested2 ==
    MkBlob(<<BeginNode(Root), Prop(<<"b">>, Cell("1")), BeginNode(<<"a">>),
             BeginNode(<<"y">>), Prop(<<"b">>, Cell("1")), EndNode,
             BeginNode(<<"d">>), EndNode, EndNode, EndNode, End>>, 0, 0)

\* / { a { c = <1>; x { b = <1>; y { c = <2>; }; }; }; [NOP] d { b = <1>; }; };
Nested3 ==
    MkBlob(<<BeginNode(Root), BeginNode(<<"a">>), Prop(<<"c">>, Cell("1")),
             BeginNode(<<"x">>), Prop(<<"b">>, Cell("1")), BeginNode(<<"y">>),
             Prop(<<"c">>, Cell("2")), EndNode, EndNode, EndNode, Nop,
             BeginNode(<<"d">>), Prop(<<"b">>, Cell("1")), EndNode, EndNode,
             End>>, 2, 8)

\* / { s { u { compatible = "x,y", "v,u"; k { r = <1>; }; };
\*         g { compatible = "v,g"; }; }; };
CompatTree ==
    MkBlob(<<BeginNode(Root), BeginNode(<<"s">>), BeginNode(<<"u">>),
             Prop(COMPATIBLE, StrVal(<<"x", ",", "y">>) \o StrVal(<<"v", ",", "u">>)),
             BeginNode(<<"k">>), Prop(<<"r">>, Cell("1")), EndNode, EndNode,
             BeginNode(<<"g">>), Prop(COMPATIBLE, StrVal(<<"v", ",", "g">>)),
             EndNode, EndNode, EndNode, End>>, 0, 0)

Names == <<"a", "d", "x", "y", "u", "g", "h", "k">>

RECURSIVE CombTags(_, _)
CombTags(i, n) ==
    IF i > n THEN <<>>
    ELSE <<BeginNode(<<Names[i]>>), Prop(<<"c">>, Cell("2")),
           Prop(<<"b">>, Cell("1")), EndNode>> \o CombTags(i + 1, n)

\* a root with n children, each holding the properties c and b
Comb(n) == MkBlob(<<BeginNode(Root)>> \o CombTags(1, n) \o <<EndNode, End>>, 1, 0)

RECURSIVE ChainTags(_)
ChainTags(n) ==
    IF n = 0 THEN <<Prop(<<"b">>, Cell("1"))>>
    ELSE <<BeginNode(<<"a">>)>> \o ChainTags(n - 1) \o <<EndNode>>

\* a root over n nodes nested in one another, the innermost holding b
Chain(n) == MkBlob(<<BeginNode(Root)>> \o ChainTags(n) \o <<EndNode, End>>, 0, 0)

\* a well-formed blob whose innermost path needs more than the path buffer
Deep == Chain(PathLen \div 2)

\* the deepest chains the stack takes and the first it does not: the
\* innermost node of Chain(n) is at depth n
Towers == {Chain(FDT_MAX_DEPTH - 1), Chain(FDT_MAX_DEPTH)}

\* a path buffer that holds the path of every node of the towers; do_fdtgrep
\* has char path[1024]
LongPath == 2 * FDT_MAX_DEPTH + 4

Blobs ==
    {Scenario1, Scenario3, CompatTree, Nested2, Nested3, Deep}
        \cup {Comb(n) : n \in 1..MaxComb}

FlagOpts == <<"S", "e", "s", "m", "t">>

RECURSIVE FlagLine(_, _)
FlagLine(S, i) ==
    IF i > Len(FlagOpts) THEN <<>>
    ELSE (IF FlagOpts[i] \in S THEN <<Opt(FlagOpts[i])>> ELSE <<>>)
         \o FlagLine(S, i + 1)

Filters ==
    << <<>>,
       <<OptArg("p", <<"b">>)>>,
       <<OptArg("p", <<"b">>), OptArg("n", <<"/", "/">>)>>,
       <<OptArg("n", <<"/", "a">>)>>,
       <<OptArg("p", <<"b">>), OptArg("n", <<"/", "a", "/", "d">>)>>,
       <<OptArg("N", <<"/", "d">>)>>,
       <<OptArg("c", <<"v", ",", "u">>)>>,
       <<OptArg("g", <<"v", ",", "u">>)>>,
       <<OptArg("g", <<"/", "a">>)>>,
       <<OptArg("n", <<"/", "/">>)>>,
       <<Opt("v"), OptArg("n", <<"/", "a">>)>>,
       <<OptArg("n", <<"/", "a">>), OptArg("N", <<"/", "d">>)>>,
       <<Opt("v"), OptArg("N", <<"/", "d">>)>>,
       <<OptArg("N", <<"/", "a">>)>>,
       <<OptArg("N", <<"/">>)>>,
       <<OptArg("n", <<"a">>)>>,
       <<OptArg("n", <<>>)>>,
       <<OptArg("g", <<"/", "a">>), OptArg("N", <<"/", "d">>)>>,
       <<OptArg("P", <<"c">>), OptArg("n", <<"/", "a">>)>>,
       <<OptArg("p", <<"b">>), OptArg("G", <<"/", "a">>)>>,
       <<Opt("v"), OptArg("p", <<"b">>)>>,
       <<OptArg("p", <<"b">>), OptArg("n", <<"/", "d">>)>>,
       <<OptArg("c", <<"v", ",", "u">>), OptArg("C", <<"v", ",", "g">>)>>,
       <<OptArg("p", <<"b">>), OptArg("P", <<"c">>)>>,
       <<OptArg("G", <<"/", "a">>), OptArg("c", <<"v", ",", "u">>)>>,
       <<OptArg("n", <<"/", "a">>), OptArg("p", <<"b">>), OptArg("N", <<"/", "d">>)>> >>

CommandLines ==
    {FlagLine(S, 1) \o Filters[i] :
        S \in SUBSET {FlagOpts[k] : k \in 1..Len(FlagOpts)},
        i \in 1..Len(Filters)}

\* the command lines run on the towers
TowerLines ==
    {<<>>, <<Opt("S")>>, <<OptArg("p", <<"b">>)>>,
     <<Opt("S"), OptArg("p", <<"b">>)>>}

(***************************************************************************)
(* The program: main and scan_args, then fdt_find_regions looping          *)
(* fdt_first_region / fdt_next_region over the caller's array.  A second   *)
(* pass repeats the walk with max_regions = ArrayLen, the array that holds *)
(* every region, as the reference of the pause/resume comparison.          *)
(***************************************************************************)
VARIABLES
    argv,       \* the options of the command line
    argi,       \* scan_args: index of the next option
    disp,       \* display_info
    fdt,        \* the blob
    path_len,   \* size of the path buffer
    st,         \* memory of the walk: info, path, region array
    pc,         \* position: "args", "usage", "first", "next", "loop", "tail",
                \* "returned", "found"
    ret,        \* value returned by the last call of first/next
    count,      \* fdt_find_regions: regions stored so far
    pass,       \* "max1", then "large" (the reference walk) or "retry"
                \* (the second pass of do_fdtgrep)
    out1,       \* the regions and result of the "max1" pass, once it is over
    committed,  \* history: offsets of the tags whose iteration committed
    failed      \* history: the region whose addition failed in the call
                \* that returned last, <<>> if none

vars == <<argv, argi, disp, fdt, path_len, st, pc, ret, count, pass, out1,
          committed, failed>>

StaleFrame == [offset |-> -1, want |-> -1, included |-> -1]

\* memory as the caller allocates it, with a path buffer of len bytes:
\* nothing of it is initialised
Memory(len) ==
    [info |-> [can_merge |-> -1, max_regions |-> -1, start |-> -2,
               count |-> -1, region |-> -1,
               ptrs |-> [want |-> -1, end |-> -1, nextoffset |-> -1,
                         depth |-> -2, done |-> -1],
               stack |-> [i \in 0..(FDT_MAX_DEPTH - 1) |-> StaleFrame]],
     path |-> [k \in 1..len |-> "?"],
     region |-> [k \in 1..ArrayLen |-> StaleRegion],
     oob |-> [k \in {} |-> StaleRegion],
     wrote |-> -1,
     adds |-> <<>>,
     seen |-> <<>>,
     open |-> <<>>]

StaleMemory == Memory(PathLen)

Init ==
    /\ \/ /\ argv \in CommandLines
          /\ fdt \in Blobs
          /\ path_len = PathLen
       \/ /\ argv \in TowerLines
          /\ fdt \in Towers
          /\ path_len = LongPath
    /\ argi = 1
    /\ disp = DefaultDisp
    /\ st = Memory(path_len)
    /\ pc = "args"
    /\ ret = "NONE"
    /\ count = 0
    /\ pass = "max1"
    /\ out1 = [regions |-> <<>>, ret |-> "NONE"]
    /\ committed = <<>>
    /\ failed = <<>>

\* scan_args: one option; a failing value_add ends the program in usage()
ScanArg ==
    /\ pc = "args"
    /\ argi <= Len(argv)
    /\ LET r == ScanOption(disp, argv[argi])
       IN /\ disp' = r.disp
          /\ pc' = IF r.rc # 0 THEN "usage" ELSE "args"
    /\ argi' = argi + 1
    /\ UNCHANGED <<argv, fdt, path_len, st, ret, count, pass, out1, committed,
                   failed>>

\* scan_args after the last option: -v with an exclude condition is refused
ArgsDone ==
    /\ pc = "args"
    /\ argi > Len(argv)
    /\ pc' = IF disp.invert = 1 /\ disp.types_exc # {} THEN "usage" ELSE "first"
    /\ UNCHANGED <<argv, argi, disp, fdt, path_len, st, ret, count, pass, out1,
                   committed, failed>>

\* where a call stands after NextEntry or a committed iteration
AfterStep(s) ==
    IF s.info.ptrs.done < FDT_DONE_STRUCT THEN "loop" ELSE "tail"

\* max_regions of the walk.  fdt_first_region sets 1, whatever array the
\* caller has: that is the pass "max1".  The pass "large" is the walk the
\* documentation of fdt_next_region compares it with, the same code given
\* max_regions = ArrayLen and the whole array, so that it never pauses.
MaxRegions == IF pass = "large" THEN ArrayLen ELSE 1

\* fdt_find_regions calls fdt_first_region(..., &region[count++], ...)
CallFirst ==
    /\ pc = "first"
    /\ LET e == NextEntry(FirstState(st, MaxRegions), fdt, disp.flags, count)
       IN /\ st' = e.st
          /\ pc' = IF e.rc = 0 THEN "returned" ELSE AfterStep(e.st)
          /\ ret' = IF e.rc = 0 THEN "OK" ELSE "NONE"
    /\ count' = IF pass = "large" THEN count ELSE count + 1
    /\ UNCHANGED <<argv, argi, disp, fdt, path_len, pass, out1, committed,
                   failed>>

\* fdt_find_regions calls fdt_next_region(..., &region[count], ...)
CallNext ==
    /\ pc = "next"
    /\ LET e == NextEntry(st, fdt, disp.flags, count)
       IN /\ st' = e.st
          /\ pc' = IF e.rc = 0 THEN "returned" ELSE AfterStep(e.st)
          /\ ret' = IF e.rc = 0 THEN "OK" ELSE "NONE"
    /\ UNCHANGED <<argv, argi, disp, fdt, path_len, count, pass, out1,
                   committed, failed>>

\* one iteration of the while loop
TagStep ==
    /\ pc = "loop"
    /\ \E r \in {LoopBody(st, fdt, disp, path_len)} :
          /\ st' = IF r.rc = "GO"
                   THEN [r.st EXCEPT !.seen = Append(@, st.info.ptrs.want),
                                     !.open = Append(@, st.info.start # -1)]
                   ELSE r.st
          /\ pc' = IF r.rc = "GO" THEN AfterStep(r.st) ELSE "returned"
          /\ ret' = IF r.rc = "GO" THEN "NONE" ELSE r.rc
          /\ committed' = IF r.rc = "GO"
                          THEN Append(committed, st.info.ptrs.nextoffset)
                          ELSE committed
    /\ UNCHANGED <<argv, argi, disp, fdt, path_len, count, pass, out1, failed>>

\* the code after the loop, to the return
TailStep ==
    /\ pc = "tail"
    /\ LET r == NextTail(st, fdt, disp.flags)
       IN /\ st' = r.st
          /\ ret' = r.rc
    /\ pc' = "returned"
    /\ UNCHANGED <<argv, argi, disp, fdt, path_len, count, pass, out1,
                   committed, failed>>

Min(a, b) == IF a < b THEN a ELSE b

\* the regions a call left in the caller's array
Stored(s) == Min(s.info.count, s.info.max_regions)

LastFailed(s) ==
    IF Len(s.adds) > 0 /\ s.adds[Len(s.adds)].rc # 0
    THEN <<[offset |-> s.adds[Len(s.adds)].offset,
            size |-> s.adds[Len(s.adds)].size]>>
    ELSE <<>>

\* fdt_find_regions after a call: count the region and call again while
\* the call returns 0.  The call of fdt_first_region has counted its region
\* already; the reference pass counts what the call stored.
Returned ==
    /\ pc = "returned"
    /\ count' = IF ret # "OK" THEN count
                ELSE IF pass = "large" THEN count + Stored(st)
                ELSE IF st.info.region = 0 THEN count
                ELSE count + 1
    /\ pc' = IF ret = "OK" THEN "next" ELSE "found"
    /\ failed' = LastFailed(st)
    /\ UNCHANGED <<argv, argi, disp, fdt, path_len, st, ret, pass, out1,
                   committed>>

\* the "max1" pass is over: keep its result and walk again with the large
\* array, from memory as stale as before
Reference ==
    /\ pc = "found"
    /\ pass = "max1"
    /\ out1' = [regions |-> SubSeq(st.region, 1, Min(count, ArrayLen)),
                ret |-> ret]
    /\ pass' = "large"
    /\ st' = Memory(path_len)
    /\ count' = 0
    /\ pc' = "first"
    /\ ret' = "NONE"
    /\ committed' = <<>>
    /\ failed' = <<>>
    /\ UNCHANGED <<argv, argi, disp, fdt, path_len>>

Next ==
    \/ ScanArg
    \/ ArgsDone
    \/ CallFirst
    \/ CallNext
    \/ TagStep
    \/ TailStep
    \/ Returned
    \/ Reference

Spec == Init /\ [][Next]_vars

(***************************************************************************)
(* What the properties speak of: the tree the tag stream encodes, and the  *)
(* regions a pass has yielded.                                             *)
(***************************************************************************)
RECURSIVE OpenNodes(_, _)
\* the BEGIN_NODE tags (indexes, outermost first) still open before tag i
OpenNodes(tags, i) ==
    IF i = 1 THEN <<>>
    ELSE LET prev == OpenNodes(tags, i - 1)
             t == tags[i - 1]
         IN IF t.tag = "BEGIN_NODE" THEN Append(prev, i - 1)
            ELSE IF t.tag = "END_NODE" /\ Len(prev) > 0
                 THEN SubSeq(prev, 1, Len(prev) - 1)
            ELSE prev

RECURSIVE JoinNames(_, _, _)
JoinNames(tags, nodes, k) ==
    IF k > Len(nodes) THEN <<>>
    ELSE <<"/">> \o tags[nodes[k]].name \o JoinNames(tags, nodes, k + 1)

\* the absolute path of the node whose BEGIN_NODE is tag j: "/" for the
\* root, "/a/b" below it
TruePath(tags, j) ==
    LET nodes == Append(OpenNodes(tags, j), j)
    IN IF Len(nodes) = 1 THEN <<"/">> ELSE JoinNames(tags, nodes, 2)

\* the END_NODE tag that closes the node begun by tag j
EndOf(tags, j) ==
    CHOOSE k \in (j + 1)..Len(tags) :
        /\ tags[k].tag = "END_NODE"
        /\ OpenNodes(tags, k) = Append(OpenNodes(tags, j), j)

NodeTags(f) == {j \in 1..Len(f.tags) : f.tags[j].tag = "BEGIN_NODE"}
PropTags(f) == {j \in 1..Len(f.tags) : f.tags[j].tag = "PROP"}
EndTag(f) == CHOOSE j \in 1..Len(f.tags) : f.tags[j].tag = "END"

\* nodes that enclose tag i (for a BEGIN_NODE: its proper ancestors)
Ancestors(f, i) == {OpenNodes(f.tags, i)[k] : k \in 1..Len(OpenNodes(f.tags, i))}

\* the tags of the subtree of node j, its own BEGIN_NODE and END_NODE included
Subtree(f, j) == j..EndOf(f.tags, j)

\* the predicate's answer for node j by its absolute path, for property i
\* by its name
NodeAnswer(j) ==
    h_include(disp, fdt, fdt.offs[j], FDT_IS_NODE,
              StrVal(TruePath(fdt.tags, j)), Len(TruePath(fdt.tags, j)) + 1)
PropAnswer(i) ==
    h_include(disp, fdt, fdt.offs[i], FDT_IS_PROP,
              StrVal(fdt.tags[i].name), Len(fdt.tags[i].name) + 1)

\* the regions in the caller's array
Yield == SubSeq(st.region, 1, Min(count, ArrayLen))

\* the pass is over and ended with the terminal signal
Complete == pc = "found" /\ ret = "NOTFOUND"

\* tag i lies inside one of the regions
CoveredBy(regions, i) ==
    \E k \in 1..Len(regions) :
        /\ regions[k].offset <= fdt.off_dt_struct + fdt.offs[i]
        /\ fdt.off_dt_struct + fdt.offs[i + 1] <= regions[k].offset + regions[k].size
Covered(i) == CoveredBy(Yield, i)

MemRegion ==
    [offset |-> fdt.off_mem_rsvmap, size |-> fdt.off_dt_struct - fdt.off_mem_rsvmap]
StringRegion == [offset |-> fdt.off_dt_strings, size |-> fdt.size_dt_strings]

FilterIs(f) ==
    SelectSeq(argv, LAMBDA o : o.opt \in {"c", "C", "g", "G", "n", "N", "p", "P", "v"}) = f

(***************************************************************************)
(* C1.  Pause-safety: the first/next loop with max_regions = 1 yields the  *)
(* same list of regions, in the same order, as the same walk with an       *)
(* array that holds every region.                                          *)
(***************************************************************************)
C1_PauseSafe ==
    (pass = "large" /\ pc = "found") => out1.regions = Yield

(***************************************************************************)
(* C2.  Across calls that return early because the array is full, every    *)
(* tag is committed exactly once and in stream order, the call after an    *)
(* array-full return re-processes the same tag and adds the region that    *)
(* failed, and no region is duplicated or dropped.  The parts are stated   *)
(* one by one; the claim is their conjunction.                             *)
(***************************************************************************)
\* the committed tags are the first tags of the stream, each once, and all
\* of them once the walk is complete
CommittedInOrder ==
    /\ Len(committed) <= Len(fdt.tags)
    /\ \A k \in 1..Len(committed) : committed[k] = fdt.offs[k]
    /\ Complete => Len(committed) = Len(fdt.tags)

\* the first region a call adds after an array-full return is the one whose
\* addition failed
RetryAddsFailed ==
    (pc \in {"loop", "tail", "returned"} /\ failed # <<>> /\ Len(st.adds) > 0)
        => [offset |-> st.adds[1].offset, size |-> st.adds[1].size] = failed[1]

\* no tag is yielded twice
NoRegionDuplicated ==
    \A i \in 1..Len(fdt.tags) :
        Cardinality({k \in 1..Len(Yield) : CoveredBy(<<Yield[k]>>, i)}) <= 1

\* every tag the uninterrupted walk yields is yielded by the paused walk
NoRegionDropped ==
    (pass = "large" /\ pc = "found") =>
        \A i \in 1..Len(fdt.tags) : CoveredBy(Yield, i) => CoveredBy(out1.regions, i)

C2_ExactlyOnce ==
    /\ CommittedInOrder
    /\ RetryAddsFailed
    /\ NoRegionDuplicated
    /\ NoRegionDropped

Selected(f) ==
    {j \in NodeTags(f) : NodeAnswer(j) = 1} \cup {i \in PropTags(f) : PropAnswer(i) = 1}

C4_Supernodes ==
    (Complete /\ "SUPERNODES" \in disp.flags) =>
        \A j \in Selected(fdt) : \A a \in Ancestors(fdt, j) :
            Covered(a) /\ Covered(EndOf(fdt.tags, a))

\* a selected node two levels down whose parent has a tag left out
C4_Witness ==
    /\ Complete
    /\ pass = "max1"
    /\ "SUPERNODES" \in disp.flags
    /\ \E j \in Selected(fdt) \cap NodeTags(fdt) :
           /\ Cardinality(Ancestors(fdt, j)) >= 2
           /\ \E a \in Ancestors(fdt, j) : \E i \in Subtree(fdt, a) : ~Covered(i)

(***************************************************************************)
(* C5.  Repeatedly calling next after first eventually returns NotFound,   *)
(* and NotFound is returned only when the walk has reached End, the        *)
(* trailing structure region and (under AddStringTab) the string-table     *)
(* region have been yielded and no region is pending.                      *)
(***************************************************************************)
\* what holds of a call that has returned NotFound
NotFoundIsFinal ==
    (pc \in {"returned", "found"} /\ ret = "NOTFOUND") =>
        /\ Len(committed) = Len(fdt.tags)
        /\ st.info.ptrs.done >= FDT_DONE_END
        /\ Covered(EndTag(fdt))
        /\ "ADD_STRING_TAB" \in disp.flags =>
               /\ st.info.ptrs.done = FDT_DONE_STRINGS
               /\ Len(Yield) > 0
               /\ Yield[Len(Yield)] = StringRegion
        /\ st.info.count = 0
        /\ LastFailed(st) = <<>>

\* A measure of what is left of a run; it falls with every step, so a run
\* cannot go on for ever.  CallsBound bounds the calls of one pass: no call
\* returns 0 without a region stored, and a pass has no more regions than
\* tags, the mem-reserve map and the string table.
CallsBound == Len(fdt.tags) + 2
CallRank == Len(fdt.tags) + 5
InFirstCall == pass = "max1" /\ st.info.region = 0 /\ pc \in {"loop", "tail", "returned"}
CallsLeft == CallsBound - (IF InFirstCall THEN count - 1 ELSE count)
Rank ==
    CASE pc = "usage" -> 0
      [] pc = "args" -> 2 * (CallsBound + 2) * CallRank + 1 + Len(argv) + 1 - argi
      [] OTHER ->
           (IF pass = "max1" THEN (CallsBound + 2) * CallRank ELSE 0)
           + CallsLeft * CallRank
           + CASE pc \in {"first", "next"} -> Len(fdt.tags) + 4
               [] pc = "loop" -> Len(fdt.tags) - Len(committed) + 3
               [] pc = "tail" -> 2
               [] pc = "returned" -> 1
               [] OTHER -> 0

\* a step is possible wherever the program has not ended: the actions are
\* guarded by pc (and argi) alone
Ended == pc = "usage" \/ (pc = "found" /\ pass = "large")
Runs ==
    /\ Rank >= 0
    /\ CallsLeft >= 0
    /\ pc \in {"args", "usage", "first", "next", "loop", "tail", "returned", "found"}

\* the statement as given: every run of calls ends, and with NotFound
C5_AlwaysNotFound ==
    /\ [][Rank' < Rank]_vars
    /\ [](Runs /\ NotFoundIsFinal)
    /\ [](pc = "found" => ret = "NOTFOUND")

\* every run of calls ends, with NotFound or with the error of a path that
\* does not fit the buffer or of a tree nested too deep
C5_Terminates ==
    /\ [][Rank' < Rank]_vars
    /\ [](Runs /\ NotFoundIsFinal)
    /\ [](pc = "found" => ret \in {"NOTFOUND", "NOSPACE", "TOODEEP"})

\* a run that ended with NotFound after calls that returned for a full array
C5_Witness ==
    /\ Complete
    /\ pass = "max1"
    /\ "ADD_STRING_TAB" \in disp.flags
    /\ count >= 4

\* a run that ended with NoSpace
C5_WitnessNoSpace ==
    pc = "found" /\ ret = "NOSPACE"

(***************************************************************************)
(* C6.  The End tag is inside the yielded regions for every blob, filter   *)
(* and flag set; when the predicate selects no node and no property, the   *)
(* output of the structure block is one region of 4 bytes, the End tag.    *)
(***************************************************************************)
\* the predicate excludes every node and includes no property
NothingSelected ==
    /\ \A j \in NodeTags(fdt) : NodeAnswer(j) = 0
    /\ \A i \in PropTags(fdt) : PropAnswer(i) # 1

\* the regions between the mem-reserve-map region and the string-table one
StructYield ==
    LET lo == IF "ADD_MEM_RSVMAP" \in disp.flags THEN 2 ELSE 1
        hi == IF "ADD_STRING_TAB" \in disp.flags THEN Len(Yield) - 1 ELSE Len(Yield)
    IN SubSeq(Yield, lo, hi)

EndRegion ==
    [offset |-> fdt.off_dt_struct + fdt.offs[EndTag(fdt)], size |-> FDT_TAGSIZE]

C6_EndIncluded ==
    Complete =>
        /\ Covered(EndTag(fdt))
        /\ NothingSelected => StructYield = <<EndRegion>>

C6_Witness ==
    /\ Complete
    /\ pass = "max1"
    /\ NothingSelected
    /\ Cardinality(PropTags(fdt)) >= 2
    /\ {"ADD_MEM_RSVMAP", "ADD_STRING_TAB"} \subseteq disp.flags
    /\ Len(Yield) = 3

(***************************************************************************)
(* C7.  With no filter at all and neither the mem-reserve map nor the      *)
(* string table asked for, a complete run yields exactly one region: the   *)
(* whole structure block, first BeginNode to End tag.                      *)
(***************************************************************************)
WholeStruct == [offset |-> fdt.off_dt_struct, size |-> fdt.size_dt_struct]

NoFilter ==
    /\ FilterIs(<<>>)
    /\ disp.flags \cap {"ADD_MEM_RSVMAP", "ADD_STRING_TAB"} = {}

C7_EmptyFilter ==
    (Complete /\ NoFilter) => Yield = <<WholeStruct>>

C7_Witness ==
    /\ Complete
    /\ pass = "max1"
    /\ NoFilter
    /\ \A j \in NodeTags(fdt) : NodeAnswer(j) = -1
    /\ \A i \in PropTags(fdt) : PropAnswer(i) = -1
    /\ Cardinality(NodeTags(fdt)) >= 4
    /\ Yield = <<WholeStruct>>

(***************************************************************************)
(* C8.  Under AddMemRsvmap the mem-reserve-map region is the first region  *)
(* yielded, under AddStringTab the string-table region is the last, and    *)
(* neither is coalesced with a region of the structure block, also when    *)
(* the two touch.                                                          *)
(***************************************************************************)
C8_Discrete ==
    Complete =>
        /\ "ADD_MEM_RSVMAP" \in disp.flags =>
               /\ Len(Yield) >= 2
               /\ Yield[1] = MemRegion
               /\ Yield[2].offset >= fdt.off_dt_struct
        /\ "ADD_STRING_TAB" \in disp.flags =>
               /\ Len(Yield) >= 2
               /\ Yield[Len(Yield)] = StringRegion
               /\ Yield[Len(Yield) - 1].offset + Yield[Len(Yield) - 1].size
                      <= fdt.off_dt_strings

\* a walk into an array with room, where both regions touch their
\* neighbours of the structure block
C8_Witness ==
    /\ Complete
    /\ pass = "large"
    /\ {"ADD_MEM_RSVMAP", "ADD_STRING_TAB"} \subseteq disp.flags
    /\ Len(Yield) >= 3
    /\ Yield[2].offset = MemRegion.offset + MemRegion.size
    /\ Yield[Len(Yield) - 1].offset + Yield[Len(Yield) - 1].size = StringRegion.offset
    /\ StringRegion.size > 0

(***************************************************************************)
(* C9.  Blob / { a { b = <1>; c = <2>; }; d { } }, Supernodes on.  With    *)
(* the single filter -p b the regions cover every tag but Prop c: node d   *)
(* is not excluded, its BeginNode and EndNode are output.  With the        *)
(* filters -p b -n // the regions cover exactly BeginNode /, BeginNode a,  *)
(* Prop b, EndNode a, EndNode / and End.                                   *)
(***************************************************************************)
CoveredTags == {i \in 1..Len(fdt.tags) : Covered(i)}

\* Scenario1 by tag: 1 BeginNode /, 2 BeginNode a, 3 Prop b, 4 Prop c,
\* 5 EndNode a, 6 BeginNode d, 7 EndNode d, 8 EndNode /, 9 End
SixTags == {1, 2, 3, 5, 8, 9}

OnlyPropB == FilterIs(<<OptArg("p", <<"b">>)>>)
PropBNoNode == FilterIs(<<OptArg("p", <<"b">>), OptArg("n", <<"/", "/">>)>>)

\* the statement as given: -p b alone leaves node d out
C9_SixTags ==
    (Complete /\ fdt = Scenario1 /\ OnlyPropB /\ "SUPERNODES" \in disp.flags)
        => CoveredTags = SixTags

C9_LeafProperty ==
    (Complete /\ fdt = Scenario1 /\ "SUPERNODES" \in disp.flags) =>
        /\ OnlyPropB => CoveredTags = (1..9) \ {4}
        /\ PropBNoNode => CoveredTags = SixTags

C9_Witness ==
    /\ Complete
    /\ pass = "max1"
    /\ fdt = Scenario1
    /\ OnlyPropB
    /\ disp.flags = {"SUPERNODES"}
    /\ Covered(3) /\ Covered(6) /\ ~Covered(4)

C9_WitnessNoNode ==
    /\ Complete
    /\ pass = "max1"
    /\ fdt = Scenario1
    /\ PropBNoNode
    /\ disp.flags = {"SUPERNODES"}
    /\ CoveredTags = SixTags

(***************************************************************************)
(* C10.  Compatible fallback.  A node whose path tells the predicate       *)
(* nothing is classified by its compatible list, so the node whose list    *)
(* holds the literal given with -c or -g is selected.  With Supernodes the *)
(* output holds its BeginNode and EndNode and those of its ancestors and   *)
(* no tag of a sibling whose list lacks the literal; its properties are    *)
(* output under -c and left out under -g, and without DirectSubnodes and   *)
(* AllSubnodes no tag of its child nodes is output.                        *)
(***************************************************************************)
Literal == <<"v", ",", "u">>
ByCompat == FilterIs(<<OptArg("c", Literal)>>)
ByAny == FilterIs(<<OptArg("g", Literal)>>)

\* the node's compatible list holds the literal
HasLiteral(j) ==
    LET compat == fdt_getprop(fdt, fdt.offs[j], COMPATIBLE)
    IN fdt_stringlist_contains(compat.data, compat.len, Literal)

\* the answer of the first classification, by path
PathAnswer(j) ==
    check_type_include(disp, FDT_IS_NODE, StrVal(TruePath(fdt.tags, j)),
                       Len(TruePath(fdt.tags, j)) + 1)

Parent(f, i) == OpenNodes(f.tags, i)[Len(OpenNodes(f.tags, i))]
OwnProps(f, j) == {i \in PropTags(f) : Parent(f, i) = j}
Children(f, j) == {k \in NodeTags(f) : k > 1 /\ Parent(f, k) = j}
Siblings(f, j) == {k \in NodeTags(f) : k > 1 /\ k # j /\ Parent(f, k) = Parent(f, j)}

CompatCase ==
    /\ Complete
    /\ "SUPERNODES" \in disp.flags
    /\ fdt \in {Scenario3, CompatTree}
    /\ ByCompat \/ ByAny

C10_WitnessAny ==
    /\ CompatCase
    /\ pass = "max1"
    /\ fdt = Scenario3
    /\ ByAny
    /\ \E j \in NodeTags(fdt) :
           HasLiteral(j) /\ Covered(j) /\ \A i \in OwnProps(fdt, j) : ~Covered(i)

(***************************************************************************)
(* C11.  The single filter -N X, X the path of a node.  Every tag outside  *)
(* X is output, and so is every child node of X with its properties.  The  *)
(* properties of X (and a Nop directly in X) are left out unless X has a   *)
(* parent and AllSubnodes is set.  The BeginNode and EndNode of X are left *)
(* out only if nothing pulls them in: they are output when Supernodes is   *)
(* set and X has a child node, and when X has a parent and DirectSubnodes  *)
(* or AllSubnodes is set.  Under DirectSubnodes the EndNode of X is also   *)
(* output whenever the tag before it is.                                   *)
(***************************************************************************)
\* the filter is -N with the path of node j
ExcludesNode(j) == FilterIs(<<OptArg("N", TruePath(fdt.tags, j))>>)

\* the Prop and Nop tags directly in node j
OwnTags(f, j) ==
    {i \in 1..Len(f.tags) : f.tags[i].tag \in {"PROP", "NOP"} /\ Parent(f, i) = j}

NodeOf(f, j) == {j, EndOf(f.tags, j)}

\* what brings the BeginNode of the excluded node j into the output
PulledIn(j) ==
    \/ "SUPERNODES" \in disp.flags /\ Children(fdt, j) # {}
    \/ j # 1 /\ disp.flags \cap {"DIRECT_SUBNODES", "ALL_SUBNODES"} # {}

C11_WitnessPulled ==
    /\ Complete
    /\ pass = "max1"
    /\ fdt = Nested3
    /\ ExcludesNode(2)
    /\ disp.flags = {"SUPERNODES"}
    /\ Covered(2) /\ ~Covered(3)

(***************************************************************************)
(* C12.  DirectSubnodes (without AllSubnodes).  Below a node the predicate *)
(* selects, a child the predicate leaves out has its BeginNode and EndNode *)
(* in the output and none of its properties, save those a property rule    *)
(* selects; a grandchild in whose subtree the predicate selects nothing    *)
(* has no tag in the output.                                               *)
(***************************************************************************)
\* the predicate selects a node or a property in the subtree of node g
SelectedBelow(g) ==
    \/ \E k \in NodeTags(fdt) \cap Subtree(fdt, g) : NodeAnswer(k) # 0
    \/ \E i \in PropTags(fdt) \cap Subtree(fdt, g) : PropAnswer(i) = 1

DirectOnly ==
    /\ Complete
    /\ "DIRECT_SUBNODES" \in disp.flags
    /\ "ALL_SUBNODES" \notin disp.flags

AllSub == Complete /\ "ALL_SUBNODES" \in disp.flags

\* the BeginNode, EndNode and Prop tags of the subtree of node j
TreeTags(j) ==
    {i \in Subtree(fdt, j) : fdt.tags[i].tag \in {"BEGIN_NODE", "END_NODE", "PROP"}}

C13_AllSubnodes ==
    AllSub => \A j \in NodeTags(fdt) : NodeAnswer(j) = 1 =>
        \A i \in TreeTags(j) :
            IF fdt.tags[i].tag = "PROP"
            THEN Covered(i) <=> PropAnswer(i) # 0
            ELSE Covered(i)

(***************************************************************************)
(* C14.  A Prop tag that immediately follows the BeginNode tag of a node   *)
(* that is left out, because the BeginNode is not in the output or because *)
(* the predicate answers Exclude for the node and AllSubnodes is not set,  *)
(* is in the output exactly when the predicate answers Include for the     *)
(* property itself.                                                        *)
(***************************************************************************)
\* the nodes whose BeginNode is immediately followed by a Prop tag
NodesWithProp == {j \in NodeTags(fdt) : fdt.tags[j + 1].tag = "PROP"}

\* the statement as given: such a property is never output
C14_NeverOutput ==
    Complete => \A j \in NodesWithProp :
        (NodeAnswer(j) = 0 /\ ~Covered(j)) => ~Covered(j + 1)

C14_PropAfterExcluded ==
    Complete => \A j \in NodesWithProp :
        (~Covered(j) \/ (NodeAnswer(j) = 0 /\ "ALL_SUBNODES" \notin disp.flags))
            => (Covered(j + 1) <=> PropAnswer(j + 1) = 1)

\* -n /a on / { a { c; x { b; y { c; }; }; }; d { b; }; }: d and its b are
\* left out
C14_Witness ==
    /\ Complete
    /\ pass = "max1"
    /\ fdt = Nested3
    /\ FilterIs(<<OptArg("n", <<"/", "a">>)>>)
    /\ 12 \in NodesWithProp
    /\ NodeAnswer(12) = 0 /\ PropAnswer(13) = -1
    /\ ~Covered(12) /\ ~Covered(13)

\* -S -p b -n // on / { b; a { y { b; }; d { }; }; }: y is left out, its b
\* is output
C14_WitnessSelected ==
    /\ Complete
    /\ pass = "max1"
    /\ fdt = Nested2
    /\ PropBNoNode
    /\ "SUPERNODES" \notin disp.flags
    /\ 4 \in NodesWithProp
    /\ NodeAnswer(4) = 0 /\ PropAnswer(5) = 1
    /\ ~Covered(4) /\ Covered(5)

(***************************************************************************)
(* C15.  Node rules are matched against the whole path: with include rules *)
(* of kind Node only (-n), no inversion and none of Supernodes,            *)
(* DirectSubnodes and AllSubnodes, the BeginNode of a node is in the       *)
(* output only if one of the literals equals the absolute path of the      *)
(* node, "/" for the root and "/a/d" below it; a bare name, the empty      *)
(* string and "//" select no node.                                         *)
(***************************************************************************)
\* the rules that apply to nodes, and their literals
NodeRules ==
    {k \in 1..Len(disp.value_head) : "NODE" \in disp.value_head[k].type}
NodeLiterals == {disp.value_head[k].string : k \in NodeRules}

\* every rule for nodes is a -n rule, and there is one
ByPathOnly ==
    /\ Complete
    /\ NodeRules # {}
    /\ \A k \in NodeRules :
           disp.value_head[k].type = FDT_IS_NODE /\ disp.value_head[k].include = 1
    /\ disp.invert = 0
    /\ disp.flags \cap {"SUPERNODES", "DIRECT_SUBNODES", "ALL_SUBNODES"} = {}

C15_FullPath ==
    ByPathOnly => \A j \in NodeTags(fdt) :
        Covered(j) => TruePath(fdt.tags, j) \in NodeLiterals

(***************************************************************************)
(* C16.  Filter construction.  As long as scan_args has not failed, no     *)
(* kind is in both the include mask and the exclude mask.  The addition of *)
(* a condition fails, and ends the program in usage(), exactly when it     *)
(* would put a kind in both masks; a -g or -G condition stands for every   *)
(* kind.                                                                   *)
(***************************************************************************)
\* the kinds a filter option names, and the masks as the option would leave
\* them
KindsOf(o) ==
    CASE o.opt \in {"n", "N"} -> {"NODE"}
      [] o.opt \in {"p", "P"} -> {"PROP"}
      [] o.opt \in {"c", "C"} -> {"COMPAT"}
      [] o.opt \in {"g", "G"} -> {"NODE", "PROP", "VALUE", "COMPAT"}
      [] OTHER -> {}
IncAfter(o) ==
    IF o.opt \in {"n", "p", "c", "g"} THEN disp.types_inc \cup KindsOf(o)
    ELSE disp.types_inc
ExcAfter(o) ==
    IF o.opt \in {"N", "P", "C", "G"} THEN disp.types_exc \cup KindsOf(o)
    ELSE disp.types_exc

C16_MasksDisjoint ==
    [][(pc = "args" /\ argi <= Len(argv)) =>
          /\ (pc' = "usage") <=>
                 (IncAfter(argv[argi]) \cap ExcAfter(argv[argi])) # {}
          /\ pc' # "usage" =>
                 /\ disp'.types_inc = IncAfter(argv[argi])
                 /\ disp'.types_exc = ExcAfter(argv[argi])
                 /\ (disp'.types_inc \cap disp'.types_exc) = {}]_vars

\* -g /a then -N /d: the second addition fails through the Any kind
C16_Witness ==
    /\ pc = "usage"
    /\ FilterIs(<<OptArg("g", <<"/", "a">>), OptArg("N", <<"/", "d">>)>>)
    /\ argi = Len(argv) + 1
    /\ Len(disp.value_head) = 1

\* -P c then -n /a: both masks are in use, for different kinds
C16_WitnessBoth ==
    /\ pc = "first"
    /\ disp.types_inc = {"NODE"}
    /\ disp.types_exc = {"PROP"}
    /\ Len(disp.value_head) = 2

(***************************************************************************)
(* C17.  Inversion.  With -v the answer of the predicate for a node or a   *)
(* property is Exclude where the answer without -v is Include, Include     *)
(* where it is Exclude, and DontKnow where it is DontKnow.  scan_args ends *)
(* in usage() exactly when -v was given together with an exclude rule.     *)
(***************************************************************************)
\* the filter set without -v
Upright == [disp EXCEPT !.invert = 0]

UprightNode(j) ==
    h_include(Upright, fdt, fdt.offs[j], FDT_IS_NODE,
              StrVal(TruePath(fdt.tags, j)), Len(TruePath(fdt.tags, j)) + 1)
UprightProp(i) ==
    h_include(Upright, fdt, fdt.offs[i], FDT_IS_PROP,
              StrVal(fdt.tags[i].name), Len(fdt.tags[i].name) + 1)

Flipped(inc) == CASE inc = 1 -> 0 [] inc = 0 -> 1 [] OTHER -> -1

HasExcludeRule == \E k \in 1..Len(disp.value_head) : disp.value_head[k].include = 0

C17_Invert ==
    [][/\ disp.invert = 1 =>
             /\ \A j \in NodeTags(fdt) : NodeAnswer(j) = Flipped(UprightNode(j))
             /\ \A i \in PropTags(fdt) : PropAnswer(i) = Flipped(UprightProp(i))
       /\ (pc = "args" /\ argi > Len(argv)) =>
             ((pc' = "usage") <=> (disp.invert = 1 /\ HasExcludeRule))]_vars

\* -v -p b on / { a { b; c }; d { } }: b is excluded, c included, the nodes
\* are not known
C17_Witness ==
    /\ Complete
    /\ disp.invert = 1
    /\ fdt = Scenario1
    /\ UprightProp(3) = 1 /\ PropAnswer(3) = 0
    /\ UprightProp(4) = 0 /\ PropAnswer(4) = 1
    /\ UprightNode(2) = -1 /\ NodeAnswer(2) = -1
    /\ Covered(4) /\ ~Covered(3)

\* -v -N /d is refused
C17_WitnessRefused ==
    /\ pc = "usage"
    /\ disp.invert = 1
    /\ HasExcludeRule
    /\ argi = Len(argv) + 1
    /\ Len(disp.value_head) = 1

(***************************************************************************)
(* C18.  Inversion law.  A command line with -v and -N X never yields a    *)
(* region list: scan_args refuses it.  The law holds of the predicate      *)
(* alone: for every node and property the answer under -n X is the answer  *)
(* the filter set of -v -N X would give.                                   *)
(***************************************************************************)
\* the literal of the filter when the filter is a single -n or -N rule
OnlyLiteral == disp.value_head[1].string
SingleInclude ==
    /\ Len(disp.value_head) = 1
    /\ FilterIs(<<OptArg("n", OnlyLiteral)>>)
InvertedExclude ==
    /\ Len(disp.value_head) = 1
    /\ FilterIs(<<Opt("v"), OptArg("N", OnlyLiteral)>>)

\* the display_info scan_args builds for -v -N X, with the flags of disp
Mirror ==
    ScanOption(ScanOption([DefaultDisp EXCEPT !.flags = disp.flags],
                          Opt("v")).disp,
               OptArg("N", OnlyLiteral)).disp

MirrorNode(j) ==
    h_include(Mirror, fdt, fdt.offs[j], FDT_IS_NODE,
              StrVal(TruePath(fdt.tags, j)), Len(TruePath(fdt.tags, j)) + 1)
MirrorProp(i) ==
    h_include(Mirror, fdt, fdt.offs[i], FDT_IS_PROP,
              StrVal(fdt.tags[i].name), Len(fdt.tags[i].name) + 1)

\* the statement as given needs a run of -v -N X that yields regions
C18_InvertedRuns ==
    (InvertedExclude /\ argi > Len(argv)) => pc # "usage"

C18_InversionLaw ==
    /\ (disp.invert = 1 /\ HasExcludeRule) => pc \in {"args", "usage"}
    /\ (SingleInclude /\ pc # "args") =>
           /\ \A j \in NodeTags(fdt) : NodeAnswer(j) = MirrorNode(j)
           /\ \A i \in PropTags(fdt) : PropAnswer(i) = MirrorProp(i)

\* -n /a: node a is selected, as the filter set of -v -N /a would select it
C18_Witness ==
    /\ Complete
    /\ pass = "max1"
    /\ fdt = Nested3
    /\ SingleInclude
    /\ OnlyLiteral = <<"/", "a">>
    /\ Mirror.invert = 1 /\ Mirror.types_exc = {"NODE"}
    /\ NodeAnswer(2) = 1 /\ MirrorNode(2) = 1
    /\ NodeAnswer(12) = 0 /\ MirrorNode(12) = 0
    /\ Covered(2)

\* -v -N /d ends in usage()
C18_WitnessRefused ==
    /\ InvertedExclude
    /\ OnlyLiteral = <<"/", "d">>
    /\ pc = "usage"

(***************************************************************************)
(* C19.  The depth bound.  The root is at depth 0.  A BeginNode at depth   *)
(* FDT_MAX_DEPTH - 1 whose path fits is processed: the iteration commits   *)
(* with the frame of that depth written, or the call returns 0 for want of *)
(* room in the region array.  A BeginNode at depth FDT_MAX_DEPTH makes the *)
(* call return TooDeep and leaves the memory of the walk, stack, path      *)
(* buffer and committed pointers, as it was; TooDeep has no other cause.   *)
(***************************************************************************)
\* the tag the next iteration of the loop reads, and the depth it would be at
TagAhead == fdt_next_tag(fdt, st.info.ptrs.nextoffset).tag
DepthAhead == st.info.ptrs.depth + 1
AtBeginNode == pc = "loop" /\ TagAhead = "BEGIN_NODE"

\* the path of the node ahead fits the buffer, by the test of the code
PathFits ==
    st.info.ptrs.end + 2 + Len(fdt_get_name(fdt, st.info.ptrs.nextoffset))
        < path_len

C19_DepthBound ==
    [][AtBeginNode =>
          /\ (ret' = "TOODEEP") <=> (DepthAhead = FDT_MAX_DEPTH)
          /\ ret' = "TOODEEP" => st' = st
          /\ (DepthAhead = FDT_MAX_DEPTH - 1 /\ PathFits) =>
                 /\ ret' \in {"NONE", "OK"}
                 /\ ret' = "NONE" =>
                        /\ st'.info.ptrs.depth = FDT_MAX_DEPTH - 1
                        /\ st'.info.stack[FDT_MAX_DEPTH - 1].offset =
                               st.info.ptrs.nextoffset]_vars

\* the tower one node too deep: the node at depth FDT_MAX_DEPTH - 1 was
\* processed, the next BeginNode returned TooDeep
C19_Witness ==
    /\ pc = "found"
    /\ ret = "TOODEEP"
    /\ fdt = Chain(FDT_MAX_DEPTH)
    /\ st.info.ptrs.depth = FDT_MAX_DEPTH - 1
    /\ st.info.stack[FDT_MAX_DEPTH - 1].offset # -1
    /\ TagAhead = "BEGIN_NODE"

\* the deepest tower the stack takes is walked to the end
C19_WitnessFits ==
    /\ Complete
    /\ fdt = Chain(FDT_MAX_DEPTH - 1)
    /\ st.info.stack[FDT_MAX_DEPTH - 1].offset # -1

(***************************************************************************)
(* C20.  The path buffer.  A BeginNode within the depth bound whose full   *)
(* path is as long as the buffer (path_len) makes the call return NoSpace. *)
(* A call that returns NoSpace leaves the memory of the walk, path buffer  *)
(* and committed pointers, as it was, and returns it only when the test of *)
(* the code fails.  No byte is ever written at path + path_len or beyond.  *)
(***************************************************************************)
\* the length of the absolute path of the node whose BeginNode is ahead
FullLen == Len(TruePath(fdt.tags, TagIndex(fdt, st.info.ptrs.nextoffset)))

Declared(blob, d) == [blob EXCEPT !.size_dt_struct = @ + d]

\* / { a { b = <1>; }; } closed once more, then d { }
ExtraEnd ==
    MkBlob(<<BeginNode(Root), BeginNode(<<"a">>), Prop(<<"b">>, Cell("1")),
             EndNode, EndNode, EndNode, BeginNode(<<"d">>), EndNode, End>>,
           1, 0)

\* a root closed twice
ShortRoot == MkBlob(<<BeginNode(Root), EndNode, EndNode, End>>, 0, 0)

BadBlobs ==
    {ExtraEnd, ShortRoot, Declared(Scenario1, FDT_TAGSIZE),
     Declared(Nested2, 2 * FDT_TAGSIZE)}

BadFilters ==
    << <<>>, <<OptArg("p", <<"b">>)>>, <<OptArg("n", <<"/", "a">>)>>,
       <<OptArg("N", <<"/", "a">>)>> >>

BadLines ==
    {FlagLine(S, 1) \o BadFilters[i] :
        S \in SUBSET {FlagOpts[k] : k \in 1..Len(FlagOpts)},
        i \in 1..Len(BadFilters)}

InitBad ==
    /\ argv \in BadLines
    /\ fdt \in BadBlobs
    /\ path_len = PathLen
    /\ argi = 1
    /\ disp = DefaultDisp
    /\ st = Memory(path_len)
    /\ pc = "args"
    /\ ret = "NONE"
    /\ count = 0
    /\ pass = "max1"
    /\ out1 = [regions |-> <<>>, ret |-> "NONE"]
    /\ committed = <<>>
    /\ failed = <<>>

SpecBad == InitBad /\ [][Next]_vars

(***************************************************************************)
(* C21.  BadStructure.  A call returns BadStructure exactly when the loop  *)
(* reads an EndNode tag at negative depth, or when the tail finds the      *)
(* offset reached after FDT_END different from size_dt_struct.  The step   *)
(* that returns it adds no region (array, count and the log of additions   *)
(* are as before), and fdt_find_regions calls the walk no more: BadStructure*)
(* is what the pass ends with.                                             *)
(***************************************************************************)
\* the loop is about to read an EndNode tag with no node open
EndNodeBelowRoot ==
    pc = "loop" /\ TagAhead = "END_NODE" /\ st.info.ptrs.depth < 0

\* the tail is about to find an offset that is not the declared size
SizeMismatch ==
    /\ pc = "tail"
    /\ st.info.ptrs.done < FDT_DONE_END
    /\ st.info.ptrs.nextoffset # fdt_size_dt_struct(fdt)

C21_BadStructure ==
    [][/\ (ret # "BADSTRUCTURE" /\ ret' = "BADSTRUCTURE")
              <=> (EndNodeBelowRoot \/ SizeMismatch)
       /\ (ret # "BADSTRUCTURE" /\ ret' = "BADSTRUCTURE") =>
              /\ pc' = "returned"
              /\ st'.region = st.region
              /\ st'.info.count = st.info.count
              /\ st'.adds = st.adds
       /\ (pc = "returned" /\ ret = "BADSTRUCTURE") =>
              (pc' = "found" /\ ret' = ret /\ count' = count /\ st' = st)]_vars

\* the pass ended with BadStructure at the EndNode that closes nothing,
\* after a region was stored
C21_Witness ==
    /\ pc = "found"
    /\ ret = "BADSTRUCTURE"
    /\ fdt = ExtraEnd
    /\ TagAhead = "END_NODE"
    /\ st.info.ptrs.depth < 0
    /\ st.info.ptrs.done < FDT_DONE_STRUCT
    /\ count > 0

\* the pass ended with BadStructure after FDT_END, the last region open and
\* never stored
C21_WitnessSize ==
    /\ pc = "found"
    /\ ret = "BADSTRUCTURE"
    /\ fdt = Declared(Scenario1, FDT_TAGSIZE)
    /\ st.info.ptrs.done = FDT_DONE_STRUCT
    /\ st.info.start # -1
    /\ st.info.ptrs.nextoffset + FDT_TAGSIZE = fdt_size_dt_struct(fdt)

(***************************************************************************)
(* do_fdtgrep.  It allocates an array of count regions, count being 100    *)
(* at first, and lets fdt_find_regions walk the blob; when the count that  *)
(* comes back is more than the array holds, it frees the array, allocates  *)
(* one of that count and walks again.  fdt_find_regions hands the walk     *)
(* &region[count] whatever the size of the array: st.oob collects the      *)
(* indexes written outside it.  Such a write is undefined behaviour; the   *)
(* program goes on, or dies (Fault).                                       *)
(***************************************************************************)
\* "int count = 100", scaled to the blobs of the model
InitialCount == 3

\* malloc(n * sizeof(struct fdt_region)) with the state of fdt_find_regions
\* and the path buffer: nothing of it is initialised
Allocated(n) ==
    [Memory(PathLen) EXCEPT !.region = [k \in 1..n |-> StaleRegion]]

\* max_regions of do_fdtgrep: the number of regions the array has room for
Capacity == Len(st.region)

DriverFilters ==
    << <<>>, <<OptArg("p", <<"b">>)>>, <<OptArg("n", <<"/", "a">>)>>,
       <<OptArg("N", <<"/", "a">>)>>,
       <<OptArg("p", <<"b">>), OptArg("n", <<"/", "d">>)>>,
       <<Opt("v"), OptArg("P", <<"b">>)>> >>

DriverLines ==
    {FlagLine(S, 1) \o DriverFilters[i] :
        S \in SUBSET {FlagOpts[k] : k \in 1..Len(FlagOpts)},
        i \in 1..Len(DriverFilters)}

DriverBlobs == {Scenario1, Nested3, Deep} \cup {Comb(n) : n \in 1..MaxComb}

InitDriver ==
    /\ argv \in DriverLines
    /\ fdt \in DriverBlobs
    /\ path_len = PathLen
    /\ argi = 1
    /\ disp = DefaultDisp
    /\ st = Allocated(InitialCount)
    /\ pc = "args"
    /\ ret = "NONE"
    /\ count = 0
    /\ pass = "max1"
    /\ out1 = [regions |-> <<>>, ret |-> "NONE"]
    /\ committed = <<>>
    /\ failed = <<>>

\* "if (count < 0)": fdt_find_regions returned an error
ReportError ==
    /\ pc = "found"
    /\ ret # "NOTFOUND"
    /\ pc' = "error"
    /\ UNCHANGED <<argv, argi, disp, fdt, path_len, st, ret, count, pass, out1,
                   committed, failed>>

\* the loop left after the first pass, whatever count came back
LeaveLoopAlways ==
    /\ pc = "found"
    /\ ret = "NOTFOUND"
    /\ pc' = "output"
    /\ UNCHANGED <<argv, argi, disp, fdt, path_len, st, ret, count, pass, out1,
                   committed, failed>>

\* the loop is left, by "if (count <= max_regions) break" or at i = 2, for
\* the output
LeaveLoop ==
    /\ pc = "found"
    /\ ret = "NOTFOUND"
    /\ count <= Capacity \/ pass = "retry"
    /\ pc' = "output"
    /\ UNCHANGED <<argv, argi, disp, fdt, path_len, st, ret, count, pass, out1,
                   committed, failed>>

\* free(region), then the second iteration: malloc(count * sizeof(...)),
\* max_regions = count, and fdt_find_regions from the start.  out1 keeps
\* what the first pass left in its array.
SecondPass ==
    /\ pc = "found"
    /\ ret = "NOTFOUND"
    /\ count > Capacity
    /\ pass = "max1"
    /\ out1' = [regions |-> st.region, ret |-> ret]
    /\ st' = [Allocated(count) EXCEPT !.oob = st.oob]
    /\ pass' = "retry"
    /\ count' = 0
    /\ pc' = "first"
    /\ ret' = "NONE"
    /\ committed' = <<>>
    /\ failed' = <<>>
    /\ UNCHANGED <<argv, argi, disp, fdt, path_len>>

\* a region was written outside the array: the program may die of it
Fault ==
    /\ pc \in {"next", "found"}
    /\ DOMAIN st.oob # {}
    /\ pc' = "fault"
    /\ UNCHANGED <<argv, argi, disp, fdt, path_len, st, ret, count, pass, out1,
                   committed, failed>>

NextDriver ==
    \/ ScanArg
    \/ ArgsDone
    \/ CallFirst
    \/ CallNext
    \/ TagStep
    \/ TailStep
    \/ Returned
    \/ ReportError
    \/ LeaveLoop
    \/ SecondPass
    \/ Fault

SpecDriver == InitDriver /\ [][NextDriver]_vars

(***************************************************************************)
(* C22.  The driver.  As stated: when fdt_find_regions reports more        *)
(* regions than the array holds, the array allocated for the second pass   *)
(* has twice the capacity.                                                 *)
(***************************************************************************)
C22_Doubles ==
    [][(pc = "found" /\ pc' = "first") => Len(st'.region) = 2 * Len(st.region)]_vars

(***************************************************************************)
(* C22, as the code has it.  Each pass calls first/next until a call       *)
(* returns something other than 0.  When the count reported is more than   *)
(* the capacity, the array of the second pass has exactly that count, and  *)
(* the walk starts again from uninitialised state; the second pass writes  *)
(* no region outside its array.  When the loop is left for the output, the *)
(* walk ended with NotFound, the count does not exceed the capacity, every *)
(* entry below the count was written in the last pass, and a second pass   *)
(* stored again the regions the first pass had room for.                   *)
(***************************************************************************)
C22_Retry ==
    [][/\ (pc = "returned" /\ ret = "OK") => pc' = "next"
       /\ (pc = "found" /\ pc' = "first") =>
              /\ count > Capacity
              /\ st' = [Allocated(count) EXCEPT !.oob = st.oob]
              /\ count' = 0
       /\ pass = "retry" => st'.oob = st.oob
       /\ pc' = "output" =>
              /\ ret = "NOTFOUND"
              /\ count <= Capacity
              /\ \A k \in 1..count : st.region[k] # StaleRegion
              /\ pass = "retry" =>
                     /\ count = Capacity
                     /\ SubSeq(st.region, 1, Len(out1.regions)) = out1.regions]_vars

\* the output is reached after a second pass: the first pass was given
\* InitialCount regions and reported more
C22_Witness ==
    /\ pc = "output"
    /\ pass = "retry"
    /\ Len(out1.regions) = InitialCount
    /\ count > InitialCount + 1
    /\ DOMAIN st.oob # {}

\* the output is reached after one pass that filled the array
C22_WitnessOnePass ==
    /\ pc = "output"
    /\ pass = "max1"
    /\ count = Capacity

(***************************************************************************)
(* The output of -O dtb.  main sets disp.header and the flags              *)
(* ADD_MEM_RSVMAP and ADD_STRING_TAB; dump_fdt_regions writes a header,    *)
(* zero bytes up to off_mem_rsvmap, then the bytes of the blob each region *)
(* names, in the order of the array.  SpecDtb runs the program in that     *)
(* mode, then once more on the file it wrote.                              *)
(***************************************************************************)
FDT_ALIGN(x, a) == ((x + a - 1) \div a) * a

RECURSIVE SumSizes(_, _)
\* "for (i = size = 0; i < count; i++) size += region[i].size"
SumSizes(region, n) ==
    IF n = 0 THEN 0 ELSE SumSizes(region, n - 1) + region[n].size

\* dump_fdt_regions that leaves the mem-reserve map in the size of the
\* structure block
dump_fdt_regionsWholeSize(flags, header, region, n) ==
    LET aligned == FDT_ALIGN(HeaderSize, ReserveEntrySize)
        mem == n > 0 /\ "ADD_MEM_RSVMAP" \in flags
        struct_start == IF mem THEN aligned + region[1].size ELSE aligned
        size == SumSizes(region, n)
        strs == n >= 2 /\ "ADD_STRING_TAB" \in flags
        str_size == IF strs THEN region[n].size ELSE 0
    IN [hdr |-> [off_mem_rsvmap |-> aligned,
                 off_dt_struct |-> struct_start,
                 size_dt_struct |-> IF strs THEN size - str_size ELSE 0,
                 off_dt_strings |-> IF strs THEN struct_start + size - str_size
                                    ELSE 0,
                 size_dt_strings |-> str_size,
                 totalsize |-> IF strs THEN struct_start + size ELSE 0],
        pieces |-> SubSeq(region, 1, n),
        written |-> (IF header = 1 THEN aligned ELSE 0) + SumSizes(region, n)]

\* dump_fdt_regions that puts the mem-reserve map right after the header
dump_fdt_regionsUnaligned(flags, header, region, n) ==
    LET aligned == HeaderSize
        mem == n > 0 /\ "ADD_MEM_RSVMAP" \in flags
        struct_start == IF mem THEN aligned + region[1].size ELSE aligned
        size == IF mem THEN SumSizes(region, n) - region[1].size
                ELSE SumSizes(region, n)
        strs == n >= 2 /\ "ADD_STRING_TAB" \in flags
        str_size == IF strs THEN region[n].size ELSE 0
    IN [hdr |-> [off_mem_rsvmap |-> aligned,
                 off_dt_struct |-> struct_start,
                 size_dt_struct |-> IF strs THEN size - str_size ELSE 0,
                 off_dt_strings |-> IF strs THEN struct_start + size - str_size
                                    ELSE 0,
                 size_dt_strings |-> str_size,
                 totalsize |-> IF strs THEN struct_start + size ELSE 0],
        pieces |-> SubSeq(region, 1, n),
        written |-> (IF header = 1 THEN aligned ELSE 0) + SumSizes(region, n)]

\* dump_fdt_regions: the header it sets up (the fields it leaves out are 0
\* from the memset), the regions copied and the number of bytes written
dump_fdt_regions(flags, header, region, n) ==
    LET aligned == FDT_ALIGN(HeaderSize, ReserveEntrySize)
        mem == n > 0 /\ "ADD_MEM_RSVMAP" \in flags
        struct_start == IF mem THEN aligned + region[1].size ELSE aligned
        size == IF mem THEN SumSizes(region, n) - region[1].size
                ELSE SumSizes(region, n)
        strs == n >= 2 /\ "ADD_STRING_TAB" \in flags
        str_size == IF strs THEN region[n].size ELSE 0
    IN [hdr |-> [off_mem_rsvmap |-> aligned,
                 off_dt_struct |-> struct_start,
                 size_dt_struct |-> IF strs THEN size - str_size ELSE 0,
                 off_dt_strings |-> IF strs THEN struct_start + size - str_size
                                    ELSE 0,
                 size_dt_strings |-> str_size,
                 totalsize |-> IF strs THEN struct_start + size ELSE 0],
        pieces |-> SubSeq(region, 1, n),
        written |-> (IF header = 1 THEN aligned ELSE 0) + SumSizes(region, n)]

RECURSIVE TagsIn(_, _, _)
\* the tags of the blob that lie in the bytes of region r, from tag i on
TagsIn(blob, r, i) ==
    IF i > Len(blob.tags) THEN <<>>
    ELSE (IF /\ r.offset <= blob.off_dt_struct + blob.offs[i]
             /\ blob.off_dt_struct + blob.offs[i + 1] <= r.offset + r.size
          THEN <<blob.tags[i]>> ELSE <<>>) \o TagsIn(blob, r, i + 1)

RECURSIVE TagsOf(_, _, _, _)
\* the tags in the pieces k..last of an output, in the order written
TagsOf(blob, pieces, k, last) ==
    IF k > last THEN <<>>
    ELSE TagsIn(blob, pieces[k], 1) \o TagsOf(blob, pieces, k + 1, last)

\* the file written from blob, read as a blob again: the header as set up,
\* and as structure block the tags of the pieces between the mem-reserve
\* map and the string table.  The string block is the one of blob, whole,
\* so that every nameoff means what it meant.
Reread(blob, out) ==
    [tags |-> TagsOf(blob, out.pieces, 2, Len(out.pieces) - 1),
     offs |-> TagOffsets(TagsOf(blob, out.pieces, 2, Len(out.pieces) - 1), 1, 0),
     off_mem_rsvmap |-> out.hdr.off_mem_rsvmap,
     off_dt_struct |-> out.hdr.off_dt_struct,
     size_dt_struct |-> out.hdr.size_dt_struct,
     off_dt_strings |-> out.hdr.off_dt_strings,
     size_dt_strings |-> out.hdr.size_dt_strings]

DtbFlagOpts == <<"S", "e", "s">>

RECURSIVE DtbFlagLine(_, _)
DtbFlagLine(S, i) ==
    IF i > Len(DtbFlagOpts) THEN <<>>
    ELSE (IF DtbFlagOpts[i] \in S THEN <<Opt(DtbFlagOpts[i])>> ELSE <<>>)
         \o DtbFlagLine(S, i + 1)

DtbFilters ==
    << <<>>, <<OptArg("g", <<"/">>)>>, <<OptArg("p", <<"b">>)>>,
       <<OptArg("n", <<"/", "a">>)>>, <<OptArg("N", <<"/", "a">>)>>,
       <<OptArg("g", <<"/", "a">>)>>,
       <<OptArg("p", <<"b">>), OptArg("n", <<"/", "d">>)>>,
       <<Opt("v"), OptArg("P", <<"b">>)>> >>

\* the command lines, each with -O dtb
DtbLines ==
    {DtbFlagLine(S, 1) \o DtbFilters[i] :
        S \in SUBSET {DtbFlagOpts[k] : k \in 1..Len(DtbFlagOpts)},
        i \in 1..Len(DtbFilters)}

DtbBlobs == {Scenario1, Nested2, Nested3, Deep} \cup {Comb(n) : n \in 1..MaxComb}

InitDtb ==
    /\ argv \in DtbLines
    /\ fdt \in DtbBlobs
    /\ path_len = PathLen
    /\ argi = 1
    /\ disp = DefaultDisp
    /\ st = Allocated(InitialCount)
    /\ pc = "args"
    /\ ret = "NONE"
    /\ count = 0
    /\ pass = "max1"
    /\ out1 = [regions |-> <<>>, ret |-> "NONE", out |-> <<>>]
    /\ committed = <<>>
    /\ failed = <<>>

\* scan_args after the last option, and main with disp.output = OUT_DTB
ArgsDoneDtb ==
    /\ pc = "args"
    /\ argi > Len(argv)
    /\ pc' = IF disp.invert = 1 /\ disp.types_exc # {} THEN "usage" ELSE "first"
    /\ disp' = [disp EXCEPT !.flags = @ \cup {"ADD_MEM_RSVMAP", "ADD_STRING_TAB"}]
    /\ UNCHANGED <<argv, argi, fdt, path_len, st, ret, count, pass, out1,
                   committed, failed>>

\* the second pass of do_fdtgrep; out1 keeps what was written so far
SecondPassDtb ==
    /\ pc = "found"
    /\ ret = "NOTFOUND"
    /\ count > Capacity
    /\ pass = "max1"
    /\ out1' = [out1 EXCEPT !.regions = st.region, !.ret = ret]
    /\ st' = [Allocated(count) EXCEPT !.oob = st.oob]
    /\ pass' = "retry"
    /\ count' = 0
    /\ pc' = "first"
    /\ ret' = "NONE"
    /\ committed' = <<>>
    /\ failed' = <<>>
    /\ UNCHANGED <<argv, argi, disp, fdt, path_len>>

\* do_fdtgrep calls dump_fdt_regions(disp, blob, region, count); disp.header
\* is 1
Dump ==
    /\ pc = "output"
    /\ out1' = [out1 EXCEPT !.out =
                   Append(@, dump_fdt_regions(disp.flags, 1, st.region, count))]
    /\ pc' = "done"
    /\ UNCHANGED <<argv, argi, disp, fdt, path_len, st, ret, count, pass,
                   committed, failed>>

\* the same command run on the file written
FeedBack ==
    /\ pc = "done"
    /\ Len(out1.out) = 1
    /\ fdt' = Reread(fdt, out1.out[1])
    /\ st' = Allocated(InitialCount)
    /\ pc' = "first"
    /\ ret' = "NONE"
    /\ count' = 0
    /\ pass' = "max1"
    /\ out1' = [out1 EXCEPT !.regions = <<>>, !.ret = "NONE"]
    /\ committed' = <<>>
    /\ failed' = <<>>
    /\ UNCHANGED <<argv, argi, disp, path_len>>

NextDtb ==
    \/ ScanArg
    \/ ArgsDoneDtb
    \/ CallFirst
    \/ CallNext
    \/ TagStep
    \/ TailStep
    \/ Returned
    \/ ReportError
    \/ LeaveLoop
    \/ SecondPassDtb
    \/ Fault
    \/ Dump
    \/ FeedBack

SpecDtb == InitDtb /\ [][NextDtb]_vars


(***************************************************************************)
(* C23.  Round trip, as stated: with the filter -g / the file written in   *)
(* dtb mode holds the structure block and the string block of the input.   *)
(***************************************************************************)
\* the run is over and its file written; the input was the original blob
Written == pc = "done" /\ Len(out1.out) = 1

\* the file just written
Output == out1.out[Len(out1.out)]

MatchRoot == <<OptArg("g", <<"/">>)>>

\* the output has the tags of the input and its string block
SameContent ==
    /\ Reread(fdt, Output).tags = fdt.tags
    /\ Output.hdr.size_dt_struct = fdt.size_dt_struct
    /\ Output.pieces[Len(Output.pieces)] = StringRegion

C23_MatchRootRoundTrip ==
    (Written /\ FilterIs(MatchRoot)) => SameContent

(***************************************************************************)
(* C23, as the code has it.  -g / matches the root node alone: no property *)
(* and, with the default flags, no other node is written, only the NOP     *)
(* tags between the children of the root (fdtgrep_tests expects two lines  *)
(* of dts from -S -g /).  The round trip is the one of the empty filter:   *)
(* with no condition at all the file written holds every tag of the input  *)
(* in order and the whole string block, under every flag.                  *)
(***************************************************************************)
\* the tags other than FDT_NOP
NoNops(tags) == SelectSeq(tags, LAMBDA t : t.tag # "NOP")

C23_RoundTrip ==
    /\ (Written /\ FilterIs(<<>>)) => SameContent
    /\ (Written /\ FilterIs(MatchRoot)) =>
           /\ \A k \in 1..Len(Reread(fdt, Output).tags) :
                  Reread(fdt, Output).tags[k].tag # "PROP"
           /\ disp.flags \cap {"DIRECT_SUBNODES", "ALL_SUBNODES"} = {} =>
                  NoNops(Reread(fdt, Output).tags)
                      = <<BeginNode(Root), EndNode, End>>
           /\ Output.pieces[Len(Output.pieces)] = StringRegion

\* a tree with properties and a NOP went through unchanged
C23_Witness ==
    /\ Written
    /\ FilterIs(<<>>)
    /\ fdt = Nested3
    /\ SameContent
    /\ Len(Output.pieces) = 3

\* -g / on a tree of several nodes: the root alone is written
C23_WitnessRoot ==
    /\ Written
    /\ FilterIs(MatchRoot)
    /\ fdt = Nested3
    /\ Reread(fdt, Output).tags = <<BeginNode(Root), Nop, EndNode, End>>


(***************************************************************************)
(* C24.  The header of -O dtb.  off_mem_rsvmap is the size of the header   *)
(* rounded up to a multiple of the size of a reserve entry; off_dt_struct  *)
(* is off_mem_rsvmap plus the size of the mem-reserve-map region;          *)
(* off_dt_strings is off_dt_struct plus size_dt_struct; totalsize is       *)
(* off_dt_strings plus size_dt_strings, and is the number of bytes         *)
(* written; size_dt_struct is the size of the tags written.  As stated:    *)
(* the same command run on the file written writes a file of the same      *)
(* size.                                                                   *)
(***************************************************************************)
\* the run on the file the first run wrote is over
SecondRunOver ==
    \/ pc = "done" /\ Len(out1.out) = 2
    \/ pc = "error" /\ Len(out1.out) = 1

MemSize == fdt.off_dt_struct - fdt.off_mem_rsvmap

C24_WitnessRefused ==
    /\ pc = "error"
    /\ ret = "BADSTRUCTURE"
    /\ Len(out1.out) = 1
    /\ "SUPERNODES" \notin disp.flags


(***************************************************************************)
(* The hash tests.  check_hash writes the bin output of a command (the     *)
(* bytes of the regions, no header), changes the blob with fdtput, a       *)
(* property set on a node or a subnode created, and compares the bin       *)
(* output of the same command on the changed blob.  SpecHash runs          *)
(* -n N, with and without -e, on a blob, changes the blob in one of those  *)
(* ways and runs the command again.                                        *)
(***************************************************************************)
\* tags with the sequence new put in after tag k
Spliced(tags, k, new) ==
    SubSeq(tags, 1, k) \o new \o SubSeq(tags, k + 1, Len(tags))

\* the blob with its structure block replaced: the string block moves, and
\* grows by the names that are new
Restructured(blob, tags) ==
    [tags |-> tags,
     offs |-> TagOffsets(tags, 1, 0),
     off_mem_rsvmap |-> blob.off_mem_rsvmap,
     off_dt_struct |-> blob.off_dt_struct,
     size_dt_struct |-> TagOffsets(tags, 1, 0)[Len(tags) + 1],
     off_dt_strings |-> blob.off_dt_strings
                        + TagOffsets(tags, 1, 0)[Len(tags) + 1]
                        - blob.offs[Len(blob.tags) + 1],
     size_dt_strings |-> StringsSize(tags)]

\* fdtput <blob> <node> <name> <value>: fdt_setprop puts a property that
\* the node has not right after its BEGIN_NODE tag
fdt_setprop(blob, j, name, val) ==
    Restructured(blob, Spliced(blob.tags, j, <<Prop(name, val)>>))

RECURSIVE PropsEnd(_, _)
\* the last of the properties that follow tag k
PropsEnd(tags, k) ==
    IF k < Len(tags) /\ tags[k + 1].tag = "PROP" THEN PropsEnd(tags, k + 1)
    ELSE k

\* fdtput -c <blob> <node>/<name>: fdt_add_subnode puts the new node after
\* the properties of its parent
fdt_add_subnode(blob, j, name) ==
    Restructured(blob, Spliced(blob.tags, PropsEnd(blob.tags, j),
                               <<BeginNode(name), EndNode>>))

\* the nodes the tests hash
HashTargets == {<<"/", "a">>, <<"/", "a", "/", "x">>, <<"/", "d">>}

HashLines ==
    {<<OptArg("n", n)>> : n \in HashTargets}
        \cup {<<Opt("e"), OptArg("n", n)>> : n \in HashTargets}

HashBlobs == {Nested2, Nested3, Deep}

InitHash ==
    /\ argv \in HashLines
    /\ fdt \in HashBlobs
    /\ path_len = PathLen
    /\ argi = 1
    /\ disp = DefaultDisp
    /\ st = Allocated(InitialCount)
    /\ pc = "args"
    /\ ret = "NONE"
    /\ count = 0
    /\ pass = "max1"
    /\ out1 = [regions |-> <<>>, ret |-> "NONE", out |-> <<>>, bytes |-> <<>>,
               orig |-> fdt, put |-> [kind |-> "none", node |-> 0]]
    /\ committed = <<>>
    /\ failed = <<>>

\* do_fdtgrep calls dump_fdt_regions with disp.output = OUT_BIN: no header;
\* bytes keeps what the file holds, the tags of the regions in the order
\* of the array
DumpBin ==
    /\ pc = "output"
    /\ out1' = [out1 EXCEPT
                   !.out = Append(@, dump_fdt_regions(disp.flags, 0, st.region,
                                                      count)),
                   !.bytes = Append(@, TagsOf(fdt, SubSeq(st.region, 1, count),
                                              1, count))]
    /\ pc' = "done"
    /\ UNCHANGED <<argv, argi, disp, fdt, path_len, st, ret, count, pass,
                   committed, failed>>

\* the blob is to be walked again, from the start
Again ==
    /\ st' = Allocated(InitialCount)
    /\ pc' = "first"
    /\ ret' = "NONE"
    /\ count' = 0
    /\ pass' = "max1"
    /\ committed' = <<>>
    /\ failed' = <<>>
    /\ UNCHANGED <<argv, argi, disp, path_len>>

\* check_hash: fdtput sets the property "t" on a node, then the command
\* runs again
PutProp ==
    /\ pc = "done"
    /\ Len(out1.out) = 1
    /\ \E j \in NodeTags(fdt) :
          /\ fdt' = fdt_setprop(fdt, j, <<"t">>, Cell("1"))
          /\ out1' = [out1 EXCEPT !.put = [kind |-> "prop", node |-> j]]
    /\ Again

\* fdtgrep_tests: fdtput -c creates the subnode "n" of a node, then the
\* command runs again
PutNode ==
    /\ pc = "done"
    /\ Len(out1.out) = 1
    /\ \E j \in NodeTags(fdt) :
          /\ fdt' = fdt_add_subnode(fdt, j, <<"n">>)
          /\ out1' = [out1 EXCEPT !.put = [kind |-> "node", node |-> j]]
    /\ Again

NextHash ==
    \/ ScanArg
    \/ ArgsDone
    \/ CallFirst
    \/ CallNext
    \/ TagStep
    \/ TailStep
    \/ Returned
    \/ ReportError
    \/ LeaveLoop
    \/ SecondPassDtb
    \/ Fault
    \/ DumpBin
    \/ PutProp
    \/ PutNode

SpecHash == InitHash /\ [][NextHash]_vars

(***************************************************************************)
(* C25.  With -n N and the default flags, the bin output is the same       *)
(* before and after a property is set on an ancestor of N or on a node     *)
(* below N, and before and after a subnode of N is created; it differs     *)
(* once a property is set on N itself.  With -e as well, those that were   *)
(* the same are the same but for the new subnode of N, which makes the     *)
(* output differ.                                                          *)
(***************************************************************************)
\* both outputs are written
Hashed == pc = "done" /\ Len(out1.out) = 2

\* the node N of the command line in the blob as it was: its BEGIN_NODE tag
Target ==
    {j \in NodeTags(out1.orig) : TruePath(out1.orig.tags, j) = argv[Len(argv)].arg}

SameBytes == out1.bytes[2] = out1.bytes[1]

\* the nodes below node j
Below(f, j) == {k \in NodeTags(f) : k \in Subtree(f, j) /\ k # j}

C25_Hash ==
    Hashed =>
        \A n \in Target :
            /\ (out1.put.kind = "prop" /\ out1.put.node \in Ancestors(out1.orig, n))
                   => SameBytes
            /\ (out1.put.kind = "prop" /\ out1.put.node \in Below(out1.orig, n))
                   => SameBytes
            /\ (out1.put.kind = "prop" /\ out1.put.node = n) => ~SameBytes
            /\ (out1.put.kind = "node" /\ out1.put.node = n) =>
                   (SameBytes <=> "DIRECT_SUBNODES" \notin disp.flags)

\* a property set on a node two levels below N, N having an ancestor with
\* a property of its own: the same bytes
C25_Witness ==
    /\ Hashed
    /\ out1.orig = Nested3
    /\ argv = <<OptArg("n", <<"/", "a">>)>>
    /\ out1.put = [kind |-> "prop", node |-> 6]
    /\ SameBytes
    /\ Len(out1.bytes[1]) > 3

\* a subnode created under N with -e: other bytes
C25_WitnessSubnode ==
    /\ Hashed
    /\ out1.orig = Nested3
    /\ argv = <<Opt("e"), OptArg("n", <<"/", "a", "/", "x">>)>>
    /\ out1.put = [kind |-> "node", node |-> 4]
    /\ ~SameBytes


(***************************************************************************)
(* Layouts.  The walk takes the offsets and sizes of the blocks from the   *)
(* header as they are; the one test it makes is that the string block does *)
(* not start before the end of the structure block.  SpecLayout runs the   *)
(* program on a tree without any property, whose string block is empty,    *)
(* and on a blob whose blocks are in another order: header, structure      *)
(* block, string block, mem-reserve map.                                   *)
(***************************************************************************)
\* / { a { }; d { }; }
Bare ==
    MkBlob(<<BeginNode(Root), BeginNode(<<"a">>), EndNode,
             BeginNode(<<"d">>), EndNode, EndNode, End>>, 1, 0)

\* the blob with its mem-reserve map (nrsv entries and the terminator)
\* moved behind the string block
Misordered(blob, nrsv) ==
    [blob EXCEPT
        !.off_dt_struct = HeaderSize,
        !.off_dt_strings = HeaderSize + blob.size_dt_struct,
        !.off_mem_rsvmap =
            FDT_ALIGN(HeaderSize + blob.size_dt_struct + blob.size_dt_strings,
                      ReserveEntrySize \div 2)]

LayoutBlobs == {Bare, Misordered(Scenario1, 1), Misordered(Bare, 1)}

InitLayout ==
    /\ argv \in BadLines
    /\ fdt \in LayoutBlobs
    /\ path_len = PathLen
    /\ argi = 1
    /\ disp = DefaultDisp
    /\ st = Memory(path_len)
    /\ pc = "args"
    /\ ret = "NONE"
    /\ count = 0
    /\ pass = "max1"
    /\ out1 = [regions |-> <<>>, ret |-> "NONE"]
    /\ committed = <<>>
    /\ failed = <<>>

SpecLayout == InitLayout /\ [][Next]_vars

(***************************************************************************)
(* C26.  Every region of a complete run, the mem-reserve-map region and    *)
(* the string-table region included, has an offset of 0 or more and a size *)
(* of more than 0.                                                         *)
(***************************************************************************)
C26_Positive ==
    Complete =>
        \A k \in 1..Len(Yield) : Yield[k].offset >= 0 /\ Yield[k].size > 0

\* what the code does give: the regions of the structure block are not
\* empty and lie in it; the mem-reserve-map region has the size
\* off_dt_struct - off_mem_rsvmap, negative when the map is behind the
\* structure block; the string-table region has the size size_dt_strings,
\* 0 when no property has a name
C26_AsWalked ==
    Complete =>
        \A k \in 1..Len(Yield) :
            \/ /\ Yield[k].offset >= fdt.off_dt_struct
               /\ Yield[k].size > 0
               /\ Yield[k].offset + Yield[k].size
                      <= fdt.off_dt_struct + fdt.size_dt_struct
            \/ k = 1 /\ "ADD_MEM_RSVMAP" \in disp.flags /\ Yield[k] = MemRegion
            \/ /\ k = Len(Yield)
               /\ "ADD_STRING_TAB" \in disp.flags
               /\ Yield[k] = StringRegion

\* a run that yielded a mem-reserve-map region of negative size and an
\* empty string-table region
C26_Witness ==
    /\ Complete
    /\ fdt = Misordered(Bare, 1)
    /\ Len(Yield) >= 3
    /\ Yield[1].size < 0
    /\ Yield[Len(Yield)].size = 0


(***************************************************************************)
(* C27.  Commit on success.  When fdt_add_region fails in the loop, for    *)
(* want of room in the array, the call returns 0 at once and info->ptrs    *)
(* (nextoffset, depth, want, done, end) is what it was before the tag was  *)
(* read, so that the next call reads the same tag again.  An iteration     *)
(* that changes info->ptrs is one in which no addition failed, and it      *)
(* moves nextoffset to the tag that follows.  After the loop the same      *)
(* holds of done: it counts the END region and the string table once each  *)
(* is stored, and a failed addition leaves the rest of the pointers alone. *)
(***************************************************************************)
\* the step called fdt_add_region and the last of its calls failed
AddFailed ==
    /\ Len(st'.adds) > Len(st.adds)
    /\ st'.adds[Len(st'.adds)].rc # 0

\* the additions of the step that succeeded
AddsStored ==
    {k \in (Len(st.adds) + 1)..Len(st'.adds) : st'.adds[k].rc = 0}

C27_Commit ==
    [][/\ (pc = "loop" /\ AddFailed) =>
              /\ pc' = "returned"
              /\ ret' = "OK"
              /\ st'.info.ptrs = st.info.ptrs
              /\ committed' = committed
       /\ (pc = "loop" /\ st'.info.ptrs # st.info.ptrs) =>
              /\ ~AddFailed
              /\ pc' \in {"loop", "tail"}
              /\ st'.info.ptrs.nextoffset
                     = fdt_next_tag(fdt, st.info.ptrs.nextoffset).nextoffset
       /\ (pc = "loop" /\ pc' = "returned") => st'.info.ptrs = st.info.ptrs
       /\ pc = "tail" =>
              /\ st'.info.ptrs
                     = [st.info.ptrs EXCEPT !.done = @ + Cardinality(AddsStored)]
              /\ AddFailed => (pc' = "returned" /\ ret' = "OK")]_vars

\* a call has returned because the array was full while a tag of the
\* structure block was being processed: that tag is still the next to read,
\* and depth and want are those of an open node
C27_Witness ==
    /\ pc = "returned"
    /\ ret = "OK"
    /\ pass = "max1"
    /\ LastFailed(st) # <<>>
    /\ st.info.ptrs.done < FDT_DONE_STRUCT
    /\ TagAhead = "BEGIN_NODE"
    /\ st.info.ptrs.depth >= 1
    /\ st.info.ptrs.want = WANT_NOTHING
    /\ st.info.start # -1


(***************************************************************************)
(* C28.  Prop and Nop tags.  After a complete run a Prop tag lies inside   *)
(* a yielded region exactly when the predicate says Include for it, or     *)
(* says DontKnow while the want in effect when the tag is read is          *)
(* NodesAndProps or more.  The predicate is not asked about a Nop tag: it  *)
(* lies inside a yielded region exactly when that want is NodesAndProps or *)
(* more.                                                                   *)
(***************************************************************************)
NopTags(f) == {j \in 1..Len(f.tags) : f.tags[j].tag = "NOP"}

\* the want in effect when tag i was read
WantAt(i) == st.seen[i]

C28_PropNop ==
    Complete =>
        /\ Len(st.seen) = Len(fdt.tags)
        /\ \A i \in PropTags(fdt) :
               Covered(i) <=>
                   \/ PropAnswer(i) = 1
                   \/ PropAnswer(i) = -1 /\ WantAt(i) >= WANT_NODES_AND_PROPS
        /\ \A i \in NopTags(fdt) :
               Covered(i) <=> WantAt(i) >= WANT_NODES_AND_PROPS

\* one run with a property output on DontKnow under want = NodesAndProps
\* and another left out on DontKnow under a lower want
C28_Witness ==
    /\ Complete
    /\ pass = "max1"
    /\ fdt = Nested3
    /\ \E i \in PropTags(fdt) :
           PropAnswer(i) = -1 /\ WantAt(i) >= WANT_NODES_AND_PROPS /\ Covered(i)
    /\ \E i \in PropTags(fdt) :
           PropAnswer(i) = -1 /\ WantAt(i) < WANT_NODES_AND_PROPS /\ ~Covered(i)

\* a property output because the predicate says Include although want is
\* lower than NodesAndProps
C28_WitnessInclude ==
    /\ Complete
    /\ fdt = Nested3
    /\ \E i \in PropTags(fdt) :
           PropAnswer(i) = 1 /\ WantAt(i) < WANT_NODES_AND_PROPS /\ Covered(i)

\* a property the predicate excludes while want is NodesAndProps, and a
\* Nop tag left out
C28_WitnessOut ==
    /\ Complete
    /\ fdt = Nested3
    /\ \E i \in PropTags(fdt) :
           PropAnswer(i) = 0 /\ WantAt(i) >= WANT_NODES_AND_PROPS /\ ~Covered(i)
    /\ \E i \in NopTags(fdt) : ~Covered(i)


(***************************************************************************)
(* C29.  EndNode tags.  As stated: after a complete run an EndNode tag     *)
(* lies inside a yielded region exactly when the want in effect when the   *)
(* tag is read is nonzero, whatever the flags.  The code stops a region    *)
(* before an unwanted EndNode only when DIRECT_SUBNODES is clear; with the *)
(* flag set an open region runs on over the tag.  Amended: the tag lies    *)
(* inside a yielded region exactly when that want is nonzero, or           *)
(* DIRECT_SUBNODES is set and a region is open when the tag is read.       *)
(***************************************************************************)
EndNodeTags(f) == {j \in 1..Len(f.tags) : f.tags[j].tag = "END_NODE"}

\* whether a region was open when tag i was read
OpenAt(i) == st.open[i]

C29_EndNodeIffWant ==
    Complete =>
        \A i \in EndNodeTags(fdt) : Covered(i) <=> WantAt(i) # WANT_NOTHING

C29_EndNode ==
    Complete =>
        /\ Len(st.seen) = Len(fdt.tags)
        /\ \A i \in EndNodeTags(fdt) :
               Covered(i) <=>
                   \/ WantAt(i) # WANT_NOTHING
                   \/ "DIRECT_SUBNODES" \in disp.flags /\ OpenAt(i)

\* a run without DIRECT_SUBNODES where an unwanted EndNode follows a tag
\* that was output and is left out, and a wanted EndNode is output
C29_Witness ==
    /\ Complete
    /\ pass = "max1"
    /\ "DIRECT_SUBNODES" \notin disp.flags
    /\ \E i \in EndNodeTags(fdt) :
           WantAt(i) = WANT_NOTHING /\ Covered(i - 1) /\ ~Covered(i)
    /\ \E i \in EndNodeTags(fdt) : WantAt(i) # WANT_NOTHING /\ Covered(i)

\* a run with DIRECT_SUBNODES where one unwanted EndNode is output, read
\* with a region open, and the next is left out
C29_WitnessDirect ==
    /\ Complete
    /\ "DIRECT_SUBNODES" \in disp.flags
    /\ \E i \in EndNodeTags(fdt) :
           WantAt(i) = WANT_NOTHING /\ OpenAt(i) /\ Covered(i)
    /\ \E i \in EndNodeTags(fdt) :
           WantAt(i) = WANT_NOTHING /\ Covered(i - 1) /\ ~Covered(i)


(***************************************************************************)
(* C30.  Decay and restore of want.  As stated: on a BeginNode for a node  *)
(* the predicate does not select, read while want is NodesAndProps, want   *)
(* becomes NodesOnly inside the node, unless ALL_SUBNODES keeps it at      *)
(* AllNodesAndProps; and on EndNode want goes back to the value saved for  *)
(* the frame at BeginNode.  The code decays want only under                *)
(* DIRECT_SUBNODES or ALL_SUBNODES and resets it to Nothing otherwise, and *)
(* fdt_include_supernodes raises a saved want of Nothing to NodesOnly.     *)
(* Amended: on such a BeginNode want becomes NodesOnly when                *)
(* DIRECT_SUBNODES or ALL_SUBNODES is set and Nothing when neither is; a   *)
(* want of AllNodesAndProps stays; on EndNode want becomes the want stored *)
(* in the frame, which is the value saved at BeginNode, or NodesOnly where *)
(* Nothing was saved and SUPERNODES is set.                                *)
(***************************************************************************)
\* the step commits the tag ahead, a tag of kind t
Commits(t) ==
    /\ pc = "loop"
    /\ TagAhead = t
    /\ Len(st'.seen) = Len(st.seen) + 1

\* the answer h_include gave for the node whose BeginNode the step commits
AnswerGiven ==
    h_include(disp, fdt, st.info.ptrs.nextoffset, FDT_IS_NODE, st'.path,
              st'.info.ptrs.end + 1)

\* the want read at the BeginNode of the node whose EndNode is ahead
SavedAtBegin ==
    LET open == OpenNodes(fdt.tags, Len(st.seen) + 1)
    IN st.seen[open[Len(open)]]

C30_AsStated ==
    [][/\ (Commits("BEGIN_NODE") /\ AnswerGiven = 0
              /\ st.info.ptrs.want = WANT_NODES_AND_PROPS) =>
              \/ st'.info.ptrs.want = WANT_NODES_ONLY
              \/ /\ "ALL_SUBNODES" \in disp.flags
                 /\ st'.info.ptrs.want = WANT_ALL_NODES_AND_PROPS
       /\ Commits("END_NODE") => st'.info.ptrs.want = SavedAtBegin]_vars

C30_Decay ==
    [][/\ (Commits("BEGIN_NODE") /\ AnswerGiven = 0) =>
              /\ st.info.ptrs.want = WANT_NODES_AND_PROPS =>
                     st'.info.ptrs.want =
                         IF disp.flags \cap {"DIRECT_SUBNODES", "ALL_SUBNODES"} # {}
                         THEN WANT_NODES_ONLY ELSE WANT_NOTHING
              /\ st.info.ptrs.want = WANT_ALL_NODES_AND_PROPS =>
                     st'.info.ptrs.want = WANT_ALL_NODES_AND_PROPS
       /\ Commits("END_NODE") =>
              /\ st'.info.ptrs.want =
                     st.info.stack[st.info.ptrs.depth].want
              /\ \/ st'.info.ptrs.want = SavedAtBegin
                 \/ /\ "SUPERNODES" \in disp.flags
                    /\ SavedAtBegin = WANT_NOTHING
                    /\ st'.info.ptrs.want = WANT_NODES_ONLY]_vars

\* under DIRECT_SUBNODES a node the predicate excludes, entered with want =
\* NodesAndProps, has been walked with want = NodesOnly, and after its
\* EndNode want is NodesAndProps again
C30_Witness ==
    /\ Complete
    /\ pass = "large"
    /\ "DIRECT_SUBNODES" \in disp.flags
    /\ \E j \in NodeTags(fdt) :
           /\ NodeAnswer(j) = 0
           /\ WantAt(j) = WANT_NODES_AND_PROPS
           /\ WantAt(j + 1) = WANT_NODES_ONLY
           /\ WantAt(EndOf(fdt.tags, j)) = WANT_NODES_ONLY
           /\ WantAt(EndOf(fdt.tags, j) + 1) = WANT_NODES_AND_PROPS

\* without DIRECT_SUBNODES and ALL_SUBNODES the same node is walked with
\* want = Nothing
C30_WitnessReset ==
    /\ Complete
    /\ pass = "large"
    /\ disp.flags \cap {"DIRECT_SUBNODES", "ALL_SUBNODES"} = {}
    /\ \E j \in NodeTags(fdt) :
           /\ NodeAnswer(j) = 0
           /\ WantAt(j) = WANT_NODES_AND_PROPS
           /\ WantAt(j + 1) = WANT_NOTHING

\* with SUPERNODES a node entered with want = Nothing is left with want =
\* NodesOnly
C30_WitnessRaised ==
    /\ Complete
    /\ pass = "large"
    /\ "SUPERNODES" \in disp.flags
    /\ \E j \in NodeTags(fdt) :
           /\ WantAt(j) = WANT_NOTHING
           /\ WantAt(EndOf(fdt.tags, j) + 1) = WANT_NODES_ONLY

\* under ALL_SUBNODES an excluded node is entered and walked with want =
\* AllNodesAndProps
C30_WitnessSaturated ==
    /\ Complete
    /\ pass = "large"
    /\ \E j \in NodeTags(fdt) :
           /\ NodeAnswer(j) = 0
           /\ WantAt(j) = WANT_ALL_NODES_AND_PROPS
           /\ WantAt(j + 1) = WANT_ALL_NODES_AND_PROPS


(***************************************************************************)
(* C31.  The done phase.  From the call of fdt_first_region to the end of  *)
(* the run the done phase never decreases; it becomes DoneMemRsvmap only   *)
(* at the entry of a call, with ADD_MEM_RSVMAP set and the mem-reserve     *)
(* region stored; DoneStruct only in the iteration that reads the End tag; *)
(* DoneEnd only after the loop, with the region that ends the structure    *)
(* block stored; DoneStrings only with ADD_STRING_TAB set and the string   *)
(* region stored.                                                          *)
(***************************************************************************)
Done == st.info.ptrs.done

\* the step stores the region [offset, offset + size): fdt_add_region took
\* it, alone or merged into the last region
Stores(offset, size) ==
    \E k \in 1..Len(st'.adds) :
        /\ st'.adds[k] = [offset |-> offset, size |-> size, rc |-> 0]
        /\ k > Len(st.adds) \/ pc \in {"first", "next"}

\* a step of the run after fdt_first_region has set the state up
InRun == pc \in {"next", "loop", "tail", "returned"}

C31_DoneForward ==
    [][/\ InRun => Done' >= Done
       /\ pc = "first" => Done' \in {FDT_DONE_NOTHING, FDT_DONE_MEM_RSVMAP}
       /\ (pc \in {"first", "next", "loop", "tail"} /\ Done' # Done) =>
              /\ Done' = FDT_DONE_MEM_RSVMAP =>
                     /\ pc \in {"first", "next"}
                     /\ "ADD_MEM_RSVMAP" \in disp.flags
                     /\ Stores(fdt_off_mem_rsvmap(fdt),
                               fdt_off_dt_struct(fdt) - fdt_off_mem_rsvmap(fdt))
              /\ Done' = FDT_DONE_STRUCT =>
                     pc = "loop" /\ TagAhead = "END"
              /\ Done' >= FDT_DONE_END =>
                     /\ pc = "tail"
                     /\ Done = FDT_DONE_STRUCT =>
                            Stores(fdt_off_dt_struct(fdt) + st.info.start,
                                   st.info.ptrs.nextoffset - st.info.start)
              /\ Done' = FDT_DONE_STRINGS =>
                     /\ "ADD_STRING_TAB" \in disp.flags
                     /\ Stores(fdt_off_dt_strings(fdt),
                               fdt_size_dt_strings(fdt))]_vars

\* a paused run that went through all five phases: the string region did
\* not fit the call that stored the end of the structure block
C31_Witness ==
    /\ pass = "max1"
    /\ pc = "returned"
    /\ Done = FDT_DONE_STRINGS
    /\ {"ADD_MEM_RSVMAP", "ADD_STRING_TAB"} \subseteq disp.flags
    /\ st.info.count = 1
    /\ count > 2

\* a run that ends in DoneEnd, without the string table
C31_WitnessEnd ==
    /\ Complete
    /\ Done = FDT_DONE_END
    /\ "ADD_MEM_RSVMAP" \notin disp.flags


(***************************************************************************)
(* C32.  The start of the open region.  After every committed tag, start   *)
(* differs from -1 exactly when that tag was included.  An included tag    *)
(* read with no region open sets start to its offset, and one read with a  *)
(* region open leaves start alone; a tag that is not included, read with a *)
(* region open, stores a region that begins at start and sets start to -1. *)
(* Nothing else in the loop changes start: a call that pauses, and the     *)
(* entry of the next call, leave it as it was.  (After the End tag there   *)
(* is no tag left: the code after the loop stores the last region from     *)
(* start and leaves start alone.)                                          *)
(***************************************************************************)
\* 'include' as the switch sets it for the tag ahead
IncludeAhead ==
    Switch(st, fdt, disp, path_len,
           fdt_next_tag(fdt, st.info.ptrs.nextoffset),
           [st.info.ptrs EXCEPT
               !.nextoffset =
                   fdt_next_tag(fdt, st.info.ptrs.nextoffset).nextoffset],
           st.info.ptrs.nextoffset).include

\* the step is an iteration of the loop that commits its tag
Committing == pc = "loop" /\ Len(st'.seen) = Len(st.seen) + 1

\* the step stores a region that begins at the open start
ClosesFromStart ==
    \E k \in (Len(st.adds) + 1)..Len(st'.adds) :
        /\ st'.adds[k].rc = 0
        /\ st'.adds[k].offset = fdt_off_dt_struct(fdt) + st.info.start
        /\ st'.adds[k].size > 0

C32_OpenStart ==
    [][/\ Committing =>
              /\ (st'.info.start # -1) <=> (IncludeAhead # 0)
              /\ IncludeAhead # 0 =>
                     st'.info.start = IF st.info.start = -1
                                      THEN st.info.ptrs.nextoffset
                                      ELSE st.info.start
              /\ (IncludeAhead = 0 /\ st.info.start # -1) => ClosesFromStart
       /\ (InRun /\ ~Committing) => st'.info.start = st.info.start
       /\ pc = "first" => st'.info.start = -1]_vars

\* a paused run, between two tags, with a region open whose start is the
\* offset of a tag committed by an earlier call
C32_Witness ==
    /\ pass = "max1"
    /\ pc = "loop"
    /\ count > 1
    /\ st.info.start # -1
    /\ st.info.start < st.info.ptrs.nextoffset - FDT_TAGSIZE
    /\ \E i \in 1..Len(committed) : committed[i] = st.info.start
    /\ \E i \in 2..Len(st.open) : st.open[i - 1] /\ ~st.open[i]

\* between two tags with no region open, after one was closed
C32_WitnessClosed ==
    /\ pc = "loop"
    /\ st.info.start = -1
    /\ \E i \in 1..Len(st.open) : st.open[i]


(***************************************************************************)
(* C33.  The path buffer.  As stated: after every committed tag the string *)
(* in the path buffer is the names of the nodes that are open, from the    *)
(* root down, each preceded by a slash: "/" while only the root is open,   *)
(* also after a child of the root has been closed, "/a/y" inside y, and    *)
(* the empty string when no node is open.                                  *)
(***************************************************************************)
\* the string the buffer holds: the characters before the first NUL
CStr(path) ==
    IF \E k \in 1..Len(path) : path[k] = NUL
    THEN SubSeq(path, 1,
                (CHOOSE k \in 1..Len(path) :
                    /\ path[k] = NUL
                    /\ \A m \in 1..(k - 1) : path[m] # NUL) - 1)
    ELSE path

\* the path of the innermost node open after tag i
StackPath(tags, i) ==
    LET nodes == OpenNodes(tags, i + 1)
    IN IF Len(nodes) = 0 THEN <<>>
       ELSE IF Len(nodes) = 1 THEN <<"/">>
       ELSE JoinNames(tags, nodes, 2)

C33_PathIsStack ==
    [][Committing =>
          CStr(st'.path) = StackPath(fdt.tags, Len(st'.seen))]_vars

\* the path as the code leaves it: the EndNode of a child of the root
\* leaves the empty string, until the next BeginNode
CodePath(tags, i) ==
    IF /\ Len(OpenNodes(tags, i + 1)) = 1
       /\ \E k \in 1..i : tags[k].tag = "END_NODE"
    THEN <<>>
    ELSE StackPath(tags, i)

\* what the walk that never pauses keeps
C33_AsWalked ==
    [][(Committing /\ pass = "large") =>
          CStr(st'.path) = CodePath(fdt.tags, Len(st'.seen))]_vars


(***************************************************************************)
(* C34.  The classification of check_type_include.  As stated: for a kind  *)
(* and a string list the answer is DontKnow if no rule mentions the kind;  *)
(* otherwise Include if an include rule of an overlapping kind equals a    *)
(* member of the list; otherwise Include if an exclude rule is active for  *)
(* the kind and no exclude literal of an overlapping kind matched;         *)
(* otherwise Exclude.  The code gives DontKnow instead for the kind Node   *)
(* in two cases, so that the compatible strings decide: where the answer   *)
(* would be Include by exclusion and the exclude mask is every kind (-G),  *)
(* and where it would be Exclude and the include mask is every kind (-g).  *)
(* Amended: the stated answer, with DontKnow in these two cases.           *)
(***************************************************************************)
\* what the predicate is asked about the blob: the path of each node, the
\* name of each property, the compatible list of each node
Queries ==
    {[kind |-> FDT_IS_NODE, data |-> StrVal(TruePath(fdt.tags, j)),
      size |-> Len(TruePath(fdt.tags, j)) + 1] : j \in NodeTags(fdt)}
    \cup {[kind |-> FDT_IS_PROP, data |-> StrVal(fdt.tags[i].name),
           size |-> Len(fdt.tags[i].name) + 1] : i \in PropTags(fdt)}
    \cup {[kind |-> FDT_IS_COMPAT,
           data |-> fdt_getprop(fdt, fdt.offs[j], COMPATIBLE).data,
           size |-> fdt_getprop(fdt, fdt.offs[j], COMPATIBLE).len] :
              j \in NodeTags(fdt)}

\* the rules of polarity inc whose kind overlaps q.kind and whose literal
\* is a member of the list
Matching(q, inc) ==
    {k \in 1..Len(disp.value_head) :
        /\ disp.value_head[k].include = inc
        /\ (disp.value_head[k].type \cap q.kind) # {}
        /\ fdt_stringlist_contains(q.data, q.size, disp.value_head[k].string)}

Mentioned(q) == ((disp.types_inc \cup disp.types_exc) \cap q.kind) # {}

IncludedByExclusion(q) ==
    (disp.types_exc \cap q.kind) # {} /\ Matching(q, 0) = {}

Classified(q) ==
    IF ~Mentioned(q) THEN -1
    ELSE IF Matching(q, 1) # {} THEN 1
    ELSE IF IncludedByExclusion(q) THEN 1
    ELSE 0

ClassifiedByCode(q) ==
    IF ~Mentioned(q) THEN -1
    ELSE IF Matching(q, 1) # {} THEN 1
    ELSE IF IncludedByExclusion(q)
    THEN (IF q.kind = FDT_IS_NODE /\ disp.types_exc = FDT_IS_ANY
          THEN -1 ELSE 1)
    ELSE IF q.kind = FDT_IS_NODE /\ disp.types_inc = FDT_IS_ANY THEN -1
    ELSE 0

\* the rule sets the classification is checked on: those of the walks, and
\* rule sets with exclude rules of every kind
RuleLines ==
    {Filters[i] : i \in 1..Len(Filters)}
    \cup {<<OptArg("G", <<"/", "a">>)>>,
          <<OptArg("G", <<"v", ",", "u">>)>>,
          <<OptArg("G", <<"b">>), OptArg("G", <<"/", "s", "/", "u">>)>>,
          <<OptArg("C", <<"v", ",", "g">>)>>,
          <<OptArg("C", <<"v", ",", "u">>), OptArg("C", <<"x", ",", "y">>)>>,
          <<OptArg("P", <<"b">>)>>,
          <<OptArg("N", <<"/", "a">>), OptArg("P", <<"c">>)>>,
          <<OptArg("n", <<"/", "s", "/", "u">>), OptArg("C", <<"v", ",", "g">>)>>,
          <<OptArg("c", <<"v", ",", "g">>), OptArg("N", <<"/", "s">>),
            OptArg("p", <<"r">>)>>,
          <<OptArg("g", <<"b">>), OptArg("g", <<"v", ",", "g">>)>>}

RuleBlobs == {Nested3, CompatTree, Scenario1}

NoQuery == [kind |-> {}, data |-> <<>>, size |-> 0]

InitRules ==
    /\ argv \in RuleLines
    /\ fdt \in RuleBlobs
    /\ path_len = PathLen
    /\ argi = 1
    /\ disp = DefaultDisp
    /\ st = Memory(path_len)
    /\ pc = "args"
    /\ ret = "NONE"
    /\ count = 0
    /\ pass = "max1"
    /\ out1 = [q |-> NoQuery, answer |-> -2]
    /\ committed = <<>>
    /\ failed = <<>>

\* the walk asks the predicate about a path, a name or a compatible list
Ask ==
    /\ pc = "first"
    /\ \E q \in Queries :
           out1' = [q |-> q,
                    answer |-> check_type_include(disp, q.kind, q.data, q.size)]
    /\ pc' = "asked"
    /\ UNCHANGED <<argv, argi, disp, fdt, path_len, st, ret, count, pass,
                   committed, failed>>

NextRules ==
    \/ ScanArg
    \/ ArgsDone
    \/ Ask

SpecRules == InitRules /\ [][NextRules]_vars

\* the predicate has answered
Asked == pc = "asked"

C34_AsStated ==
    Asked => out1.answer = Classified(out1.q)

C34_Classification ==
    Asked => out1.answer = ClassifiedByCode(out1.q)

\* -c v,g -N /s -p r: a compatible list that no include rule matches is
\* excluded, whatever the exclude rule for node paths says
C34_Witness ==
    /\ Asked
    /\ fdt = CompatTree
    /\ disp.types_inc = {"COMPAT", "PROP"}
    /\ disp.types_exc = {"NODE"}
    /\ out1.q.kind = FDT_IS_COMPAT
    /\ out1.q.data = StrVal(<<"x", ",", "y">>) \o StrVal(<<"v", ",", "u">>)
    /\ out1.answer = 0

\* an include rule that equals the second member of the list
C34_WitnessSecond ==
    /\ Asked
    /\ out1.q.kind = FDT_IS_COMPAT
    /\ out1.q.data = StrVal(<<"x", ",", "y">>) \o StrVal(<<"v", ",", "u">>)
    /\ Matching(out1.q, 1) # {}
    /\ out1.answer = 1

\* a node included because no exclude literal matched its path, and one
\* excluded by a literal
C34_WitnessExcluded ==
    /\ Asked
    /\ disp.types_exc = {"NODE", "PROP"}
    /\ out1.q.kind = FDT_IS_NODE
    /\ Matching(out1.q, 0) # {}
    /\ out1.answer = 0

C34_WitnessByExclusion ==
    /\ Asked
    /\ disp.types_exc = {"NODE", "PROP"}
    /\ out1.q.kind = FDT_IS_NODE
    /\ Matching(out1.q, 0) = {}
    /\ out1.answer = 1

\* -G: the exclude mask is every kind, so a node that matches no literal is
\* left to its compatible list, while a property that matches none is
\* included
C34_WitnessAny ==
    /\ Asked
    /\ disp.types_exc = FDT_IS_ANY
    /\ out1.q.kind = FDT_IS_NODE
    /\ IncludedByExclusion(out1.q)
    /\ out1.answer = -1

C34_WitnessAnyProp ==
    /\ Asked
    /\ disp.types_exc = FDT_IS_ANY
    /\ out1.q.kind = FDT_IS_PROP
    /\ IncludedByExclusion(out1.q)
    /\ out1.answer = 1

\* a kind no rule mentions
C34_WitnessNotMentioned ==
    /\ Asked
    /\ Len(disp.value_head) > 0
    /\ ~Mentioned(out1.q)
    /\ out1.answer = -1

(***************************************************************************)
(* The DTS output.  display_fdt_by_regions walks the tags of the blob once *)
(* more, with a cursor reg into the region list, and prints a line for     *)
(* each tag it shows.  A line is kept as [tag, depth, in_region]: the      *)
(* index of the tag printed, the depth of its indent, and whether the tag  *)
(* was found in a region ('+' or '-' under -d).                            *)
(***************************************************************************)
RECURSIVE DisplayWithoutCursor(_, _, _, _, _, _, _)
\* the loop with a cursor that never moves
DisplayWithoutCursor(blob, region, n, all, i, reg, out) ==
    LET file_ofs == fdt_off_dt_struct(blob) + blob.offs[i]
        in_region == /\ reg < n
                     /\ file_ofs >= region[reg + 1].offset
                     /\ file_ofs < region[reg + 1].offset + region[reg + 1].size
        tag == blob.tags[i].tag
        show == in_region \/ all = 1
        d == out.depth
    IN IF i > Len(blob.tags) \/ tag = "END" THEN out.lines
       ELSE IF ~show
       THEN DisplayWithoutCursor(blob, region, n, all, i + 1, reg,
                [out EXCEPT !.depth = IF tag = "BEGIN_NODE" THEN d + 1
                                      ELSE IF tag = "END_NODE" THEN d - 1
                                      ELSE d])
       ELSE DisplayWithoutCursor(blob, region, n, all, i + 1, reg,
                [lines |-> Append(out.lines,
                                  [tag |-> i,
                                   depth |-> IF tag = "END_NODE" THEN d - 1 ELSE d,
                                   in_region |-> in_region]),
                 depth |-> IF tag = "BEGIN_NODE" THEN d + 1
                           ELSE IF tag = "END_NODE" THEN d - 1
                           ELSE d])

RECURSIVE DisplayFrom(_, _, _, _, _, _, _)
\* the do-while loop of display_fdt_by_regions from tag i on: reg is the
\* cursor (an index from 0), n the count, out the lines and the depth so far
DisplayFrom(blob, region, n, all, i, reg, out) ==
    LET file_ofs == fdt_off_dt_struct(blob) + blob.offs[i]
        reg1 == IF /\ reg < n
                   /\ file_ofs >= region[reg + 1].offset + region[reg + 1].size
                THEN reg + 1 ELSE reg
        in_region == /\ reg1 < n
                     /\ file_ofs >= region[reg1 + 1].offset
                     /\ file_ofs < region[reg1 + 1].offset + region[reg1 + 1].size
        tag == blob.tags[i].tag
        show == in_region \/ all = 1
        d == out.depth
    IN IF i > Len(blob.tags) \/ tag = "END" THEN out.lines
       ELSE IF ~show
       THEN DisplayFrom(blob, region, n, all, i + 1, reg1,
                [out EXCEPT !.depth = IF tag = "BEGIN_NODE" THEN d + 1
                                      ELSE IF tag = "END_NODE" THEN d - 1
                                      ELSE d])
       ELSE DisplayFrom(blob, region, n, all, i + 1, reg1,
                [lines |-> Append(out.lines,
                                  [tag |-> i,
                                   depth |-> IF tag = "END_NODE" THEN d - 1 ELSE d,
                                   in_region |-> in_region]),
                 depth |-> IF tag = "BEGIN_NODE" THEN d + 1
                           ELSE IF tag = "END_NODE" THEN d - 1
                           ELSE d])

\* display_fdt_by_regions with the cursor left on the first region
display_fdt_by_regionsStuck(blob, region, n, all) ==
    DisplayWithoutCursor(blob, region, n, all, 1, 0, [lines |-> <<>>, depth |-> 0])

\* display_fdt_by_regions(disp, blob, region, count): the lines for tags;
\* all is disp->all
display_fdt_by_regions(blob, region, n, all) ==
    DisplayFrom(blob, region, n, all, 1, 0, [lines |-> <<>>, depth |-> 0])

DtsFilters ==
    << <<>>, <<OptArg("p", <<"b">>)>>, <<OptArg("n", <<"/", "a">>)>>,
       <<OptArg("N", <<"/", "a">>)>>,
       <<OptArg("p", <<"b">>), OptArg("n", <<"/", "d">>)>>,
       <<OptArg("g", <<"/", "a">>)>>,
       <<OptArg("c", <<"v", ",", "u">>)>> >>

DtsLines ==
    {FlagLine(S, 1) \o DtsFilters[i] :
        S \in SUBSET {FlagOpts[k] : k \in 1..Len(FlagOpts)},
        i \in 1..Len(DtsFilters)}

DtsBlobs ==
    {Scenario1, Nested2, Nested3, CompatTree, Deep, Bare,
     Misordered(Scenario1, 1)}

InitDts ==
    /\ argv \in DtsLines
    /\ fdt \in DtsBlobs
    /\ path_len = PathLen
    /\ argi = 1
    /\ disp = DefaultDisp
    /\ st = Memory(path_len)
    /\ pc = "args"
    /\ ret = "NONE"
    /\ count = 0
    /\ pass = "max1"
    /\ out1 = [lines |-> <<>>, all |-> 0]
    /\ committed = <<>>
    /\ failed = <<>>

\* do_fdtgrep calls display_fdt_by_regions(disp, blob, region, count);
\* disp->all is set by -a
Display ==
    /\ pc = "output"
    /\ \E all \in {0, 1} :
           out1' = [lines |-> display_fdt_by_regions(fdt, st.region, count, all),
                    all |-> all]
    /\ pc' = "done"
    /\ UNCHANGED <<argv, argi, disp, fdt, path_len, st, ret, count, pass,
                   committed, failed>>

NextDts ==
    \/ ScanArg
    \/ ArgsDone
    \/ CallFirst
    \/ CallNext
    \/ TagStep
    \/ TailStep
    \/ Returned
    \/ ReportError
    \/ LeaveLoop
    \/ Display

SpecDts == InitDts /\ [][NextDts]_vars

(***************************************************************************)
(* C35.  The cursor of the DTS output.  Without -a, the lines printed are  *)
(* one for each tag other than End whose file offset lies inside a region  *)
(* of the list, in the order of the tags, and none for any other tag; this *)
(* holds for every region list the walk produces, also one that begins     *)
(* with the mem-reserve-map region.                                        *)
(***************************************************************************)
\* the file offset of tag i lies inside one of the regions given to the
\* output
OffsetInRegion(i) ==
    \E k \in 1..count :
        /\ fdt_off_dt_struct(fdt) + fdt.offs[i] >= st.region[k].offset
        /\ fdt_off_dt_struct(fdt) + fdt.offs[i]
               < st.region[k].offset + st.region[k].size

Displayed == pc = "done"

LineTags == {out1.lines[k].tag : k \in 1..Len(out1.lines)}

C35_Cursor ==
    (Displayed /\ out1.all = 0) =>
        /\ LineTags = {i \in 1..Len(fdt.tags) :
                           fdt.tags[i].tag # "END" /\ OffsetInRegion(i)}
        /\ \A k \in 1..(Len(out1.lines) - 1) :
               out1.lines[k].tag < out1.lines[k + 1].tag

\* a list of at least four regions that begins with the mem-reserve map:
\* some tags are printed and some are not
C35_Witness ==
    /\ Displayed
    /\ out1.all = 0
    /\ "ADD_MEM_RSVMAP" \in disp.flags
    /\ count >= 4
    /\ st.region[1].offset = fdt_off_mem_rsvmap(fdt)
    /\ Len(out1.lines) >= 3
    /\ \E i \in 1..(Len(fdt.tags) - 1) : i \notin LineTags
    /\ \E i \in LineTags : \E j \in LineTags : j > i + 1 /\ (i + 1) \notin LineTags

\* with -a every tag but End has its line, marked by the region test
C35_WitnessAll ==
    /\ Displayed
    /\ out1.all = 1
    /\ Len(out1.lines) = Len(fdt.tags) - 1
    /\ \E k \in 1..Len(out1.lines) : ~out1.lines[k].in_region


(***************************************************************************)
(* C36.  DontKnow at a BeginNode.  When h_include answers -1 for a node,   *)
(* the iteration leaves the state it would leave had the answer been 1:    *)
(* want is NodesAndProps, or AllNodesAndProps under ALL_SUBNODES, the      *)
(* frame records the node as included, and the BeginNode tag is in the     *)
(* open region.                                                            *)
(***************************************************************************)
\* the iteration on the BeginNode ahead, had h_include answered val
WithAnswer(val) ==
    CloseRegion(
        OpenRegion(
            NodeAnswered(st, disp,
                         [st.info.ptrs EXCEPT
                             !.nextoffset =
                                 fdt_next_tag(fdt, st.info.ptrs.nextoffset).nextoffset],
                         st.info.ptrs.nextoffset, st'.path,
                         st'.info.ptrs.end, val),
            fdt, disp.flags, st.info.ptrs.nextoffset),
        fdt)

C36_DontKnowIncludes ==
    [][(Commits("BEGIN_NODE") /\ AnswerGiven = -1) =>
          /\ st'.info.ptrs.want =
                 IF "ALL_SUBNODES" \in disp.flags
                 THEN WANT_ALL_NODES_AND_PROPS ELSE WANT_NODES_AND_PROPS
          /\ st'.info.stack[st'.info.ptrs.depth].included = st'.info.ptrs.want
          /\ st'.info.start # -1
          /\ st'.info.start <= st.info.ptrs.nextoffset
          /\ WithAnswer(1).rc = "GO"
          /\ [st' EXCEPT !.seen = st.seen, !.open = st.open]
                 = WithAnswer(1).st
          /\ WithAnswer(-1).st = WithAnswer(1).st]_vars

\* only property rules: the predicate knows nothing of nodes; a node below
\* the root has just been entered on DontKnow with want = NodesAndProps,
\* and its BeginNode opened or extended the region
C36_Witness ==
    /\ pc = "loop"
    /\ pass = "large"
    /\ disp.types_inc = {"PROP"}
    /\ disp.types_exc = {}
    /\ "ALL_SUBNODES" \notin disp.flags
    /\ Len(st.seen) > 1
    /\ fdt.tags[Len(st.seen)].tag = "BEGIN_NODE"
    /\ NodeAnswer(Len(st.seen)) = -1
    /\ st.info.ptrs.want = WANT_NODES_AND_PROPS
    /\ st.info.start # -1

\* the same under ALL_SUBNODES
C36_WitnessAll ==
    /\ pc = "loop"
    /\ pass = "large"
    /\ "ALL_SUBNODES" \in disp.flags
    /\ Len(st.seen) > 1
    /\ fdt.tags[Len(st.seen)].tag = "BEGIN_NODE"
    /\ NodeAnswer(Len(st.seen)) = -1
    /\ st.info.ptrs.want = WANT_ALL_NODES_AND_PROPS
    /\ st.info.start # -1


(***************************************************************************)
(* C37.  One region for each call.  In the loop of fdt_find_regions, where *)
(* fdt_first_region has set max_regions to 1, a call writes no element of  *)
(* the array but the one it was handed, &region[count]; and when the call  *)
(* returns 0 that element holds one region, made of every region the call  *)
(* added with success: it begins where the first begins and ends where the *)
(* last ends.  Later calls leave it as it is.                              *)
(***************************************************************************)
\* a step inside a call of fdt_first_region or fdt_next_region
InCall == pc \in {"first", "next", "loop", "tail"}

\* the additions of the call that succeeded, in order
RECURSIVE Succeeded(_, _)
Succeeded(adds, k) ==
    IF k > Len(adds) THEN <<>>
    ELSE (IF adds[k].rc = 0
          THEN <<[offset |-> adds[k].offset, size |-> adds[k].size]>>
          ELSE <<>>) \o Succeeded(adds, k + 1)

\* the element the call was handed, after the step
Handed == st'.region[st'.info.region + 1]

C37_OneRegion ==
    [][pass = "max1" =>
          /\ InCall =>
                 /\ \A k \in DOMAIN st.region :
                        k # st'.info.region + 1 => st'.region[k] = st.region[k]
                 /\ st'.oob = st.oob
          /\ (InCall /\ pc' = "returned" /\ ret' = "OK") =>
                 LET ok == Succeeded(st'.adds, 1)
                 IN /\ st'.info.count >= 1
                    /\ Stored(st') = 1
                    /\ Len(ok) >= 1
                    /\ Handed.offset = ok[1].offset
                    /\ Handed.offset + Handed.size
                           = ok[Len(ok)].offset + ok[Len(ok)].size
                    /\ Handed.size > 0]_vars

\* a call of fdt_next_region has returned 0 for the fourth time, with a
\* region merged from two additions in its element, a further addition
\* refused, and regions still to come
C37_Witness ==
    /\ pass = "max1"
    /\ pc = "returned"
    /\ ret = "OK"
    /\ st.info.region = 3
    /\ st.info.count = 2
    /\ Len(Succeeded(st.adds, 1)) >= 2
    /\ st.info.ptrs.done < FDT_DONE_STRUCT
    /\ st.region[5] = StaleRegion


(***************************************************************************)
(* C38.  Merging is maximal.  In the region list of a complete run, two    *)
(* consecutive regions that both lie in the structure block have at least  *)
(* one byte between them that is in no region, also when they were yielded *)
(* by two calls.                                                           *)
(***************************************************************************)
\* the region lies in the structure block
InStruct(r) ==
    /\ r.offset >= fdt_off_dt_struct(fdt)
    /\ r.offset + r.size <= fdt_off_dt_struct(fdt) + fdt_size_dt_struct(fdt)

C38_Maximal ==
    Complete =>
        \A k \in 1..(Len(Yield) - 1) :
            (InStruct(Yield[k]) /\ InStruct(Yield[k + 1])) =>
                Yield[k].offset + Yield[k].size < Yield[k + 1].offset

\* the first/next loop has yielded at least three regions of the structure
\* block; one of them, yielded after a pause, is merged from the BeginNode
\* of a supernode the predicate excludes and the selected property in it
C38_Witness ==
    /\ Complete
    /\ pass = "max1"
    /\ "SUPERNODES" \in disp.flags
    /\ Cardinality({k \in 1..Len(Yield) : InStruct(Yield[k])}) >= 3
    /\ \E k \in 2..Len(Yield) : \E i \in PropTags(fdt) :
           /\ i > 2
           /\ fdt.tags[i - 1].tag = "BEGIN_NODE"
           /\ PropAnswer(i) = 1
           /\ NodeAnswer(i - 1) = 0
           /\ CoveredBy(<<Yield[k]>>, i)
           /\ CoveredBy(<<Yield[k]>>, i - 1)
           /\ InStruct(Yield[k - 1])


(***************************************************************************)
(* C39.  The bounds of the driver's array.  As stated: whatever the number *)
(* of regions the walk produces, no region is stored at an index at or     *)
(* beyond the capacity the driver allocated, in the first pass in          *)
(* particular.                                                             *)
(***************************************************************************)
C39_InBounds == DOMAIN st.oob = {}

\* what the driver does keep: an index written outside the array is at or
\* beyond the capacity of the first pass and at most the count of its regions,
\* and the second pass, with room for every region, writes none
C39_AsWalked ==
    [][/\ \A k \in DOMAIN st'.oob : k >= InitialCount
       /\ pass = "retry" => st'.oob = st.oob]_vars

\* the first pass stored a region at the index InitialCount, one past the
\* last entry of its array
C39_Overrun ==
    /\ pass = "max1"
    /\ Capacity = InitialCount
    /\ InitialCount \in DOMAIN st.oob
    /\ st.oob[InitialCount] # StaleRegion
    /\ count >= InitialCount


(***************************************************************************)
(* The state block before fdt_first_region.  fdt_find_regions keeps it in  *)
(* a local variable and do_fdtgrep keeps the path in a local array: both   *)
(* hold what the stack held before.  SpecStale starts the walk from one of *)
(* several such memories, and when the walk is over runs it again, from    *)
(* another of them or from the memory the first walk left behind.          *)
(***************************************************************************)
\* a state block and path buffer filled with f, s, m, d and c: every frame
\* is f, start is s, can_merge is m, the pointers are those of a walk that
\* stopped at depth d, and every path byte is c
StaleWith(f, s, m, d, c) ==
    [Memory(PathLen) EXCEPT
        !.info.can_merge = m,
        !.info.max_regions = ArrayLen,
        !.info.start = s,
        !.info.count = 2,
        !.info.region = 1,
        !.info.ptrs = [want |-> f.want, end |-> d + 1, nextoffset |-> s,
                       depth |-> d, done |-> FDT_DONE_STRINGS + 1],
        !.info.stack = [i \in 0..(FDT_MAX_DEPTH - 1) |-> f],
        !.path = [k \in 1..PathLen |-> c]]

StaleMemories ==
    << Memory(PathLen),
       StaleWith([offset |-> 0, want |-> WANT_NOTHING, included |-> 0],
                 0, 0, 2, "/"),
       StaleWith([offset |-> 8, want |-> WANT_NODES_AND_PROPS, included |-> 1],
                 8, 1, 0, NUL),
       StaleWith([offset |-> 16, want |-> WANT_ALL_NODES_AND_PROPS,
                  included |-> 0],
                 -1, 0, 5, "a") >>

\* the memory a walk left behind, found again by the next one: the state
\* block and the path as they are, the array allocated anew
LeftOver(s) ==
    [s EXCEPT !.region = [k \in 1..ArrayLen |-> StaleRegion],
              !.oob = [k \in {} |-> StaleRegion],
              !.wrote = -1,
              !.adds = <<>>,
              !.seen = <<>>,
              !.open = <<>>]

\* out1.from is the memory the walk under way started from (0: the memory
\* the walk before left)
InitStale ==
    /\ argv \in DtsLines
    /\ fdt \in DtsBlobs
    /\ path_len = PathLen
    /\ argi = 1
    /\ disp = DefaultDisp
    /\ \E m \in DOMAIN StaleMemories :
           /\ st = StaleMemories[m]
           /\ out1 = [regions |-> <<>>, ret |-> "NONE", from |-> m]
    /\ pc = "args"
    /\ ret = "NONE"
    /\ count = 0
    /\ pass = "max1"
    /\ committed = <<>>
    /\ failed = <<>>

\* the regions fdt_find_regions has counted, in the order of the array
Yielded == [k \in 1..count |-> RegAt(st, k - 1)]

\* fdt_find_regions called again for the same blob and options
Rerun ==
    /\ pc = "found"
    /\ pass = "max1"
    /\ \E m \in {0} \cup DOMAIN StaleMemories :
           /\ st' = IF m = 0 THEN LeftOver(st) ELSE StaleMemories[m]
           /\ out1' = [regions |-> Yielded, ret |-> ret, from |-> m]
    /\ pass' = "retry"
    /\ count' = 0
    /\ pc' = "first"
    /\ ret' = "NONE"
    /\ committed' = <<>>
    /\ failed' = <<>>
    /\ UNCHANGED <<argv, argi, disp, fdt, path_len>>

NextStale ==
    \/ ScanArg
    \/ ArgsDone
    \/ CallFirst
    \/ CallNext
    \/ TagStep
    \/ TailStep
    \/ Returned
    \/ Rerun

SpecStale == InitStale /\ [][NextStale]_vars

(***************************************************************************)
(* C40.  A run started by fdt_first_region does not depend on what the     *)
(* state block and the path buffer held before: two runs for the same      *)
(* blob, predicate and flags, started from different stale memories, yield *)
(* the same regions and end with the same result.  While a run that        *)
(* started from memory holding nothing but -1 and '?' is under way, every  *)
(* stack frame up to the depth of the walk and every path byte up to the   *)
(* end of the path is one the run wrote.                                   *)
(***************************************************************************)
C40_StaleIndependent ==
    /\ (pc = "found" /\ pass = "retry") =>
           /\ Yielded = out1.regions
           /\ ret = out1.ret
    /\ (out1.from = 1 /\ InRun) =>
           /\ \A i \in 0..st.info.ptrs.depth :
                  /\ st.info.stack[i].want >= 0
                  /\ st.info.stack[i].included >= 0
                  /\ st.info.stack[i].offset >= 0
           /\ \A k \in 1..(st.info.ptrs.end + 1) : st.path[k] # "?"

\* a second run is over, started from memory unlike the memory of the first
\* in its frames, its start, its can_merge and its path bytes; it stored
\* several regions, one of them after fdt_include_supernodes went through
\* the stack
C40_Witness ==
    /\ pc = "found"
    /\ pass = "retry"
    /\ out1.from = 2
    /\ ret = "NOTFOUND"
    /\ count >= 3
    /\ "SUPERNODES" \in disp.flags
    /\ disp.value_head # <<>>
    /\ fdt = Nested3

\* a second run is over that started from the memory the first one left
C40_WitnessLeftOver ==
    /\ pc = "found"
    /\ pass = "retry"
    /\ out1.from = 0
    /\ count >= 3
    /\ st.info.ptrs.done >= FDT_DONE_END

\* a run from memory of -1 and '?' is two nodes deep
C40_WitnessWritten ==
    /\ out1.from = 1
    /\ pc = "loop"
    /\ st.info.ptrs.depth >= 2
    /\ st.info.ptrs.end >= 4

====
